---- MODULE Spec2Model ----
(***************************************************************************)
(* A model of the Qumquat state engine (src/qumquat/main.py): the branch   *)
(* list, the register registry, the control stack, the action queue, the   *)
(* primitives and the reversible scopes.                                   *)
(*                                                                         *)
(* Amplitudes.  The code computes with Python complex floats and compares  *)
(* them with the tolerance thresh = 1e-10.  The model computes with exact  *)
(* numbers of the form (re + i*im)/den * sqrt(rad), rad squarefree, which  *)
(* is closed under every product and quotient the primitives form (1/sqrt  *)
(* N, projections a_k/norm, 4th roots of unity).  "abs(x) > thresh" is     *)
(* read as x # 0 and "abs(x - y) > 1e-10" as x # y.  A sum of two          *)
(* amplitudes with different radicands is not of that form: it is the      *)
(* value BadAmp, and an operation that would produce it is not taken.      *)
(*                                                                         *)
(* Register values.  The enriched integer (qvars.es_int) and the           *)
(* expression tree (qvars.Expression, qvars.Key) are outside               *)
(* src/qumquat/main.py; the model follows their contracts: integer values  *)
(* with bit reads and writes, expressions evaluated on a branch.  The sign *)
(* flag of an enriched integer is not modelled: the programs of the model  *)
(* keep their registers at non-negative values, and a call that would      *)
(* make one negative is not taken.  A loop that has not ended after        *)
(* MaxIter rounds is not taken either.                                     *)
(*                                                                         *)
(* Objects.  A branch is a Python dict whose register entries refer to     *)
(* objects.  copy.copy(branch) makes a dict that refers to the same        *)
(* objects, copy.deepcopy(branch) one with objects of its own, and an item *)
(* assignment branch[r][i] = bit writes into the object, for every branch  *)
(* that refers to it.  Some assignments store a Python int where the       *)
(* others store an enriched integer.  cells records which object each      *)
(* branch holds for each register.                                         *)
(***************************************************************************)
EXTENDS Integers, Sequences, FiniteSets, TLC

VARIABLES
    branches,      \* Qumquat.branches: sequence of [amp, v], v: register id -> value
    cells,         \* the objects the branches hold: cells[i][r] labels the object
                   \* that branch i holds for register r
    controls,      \* Qumquat.controls: sequence of expressions
    key_dict,      \* Qumquat.key_dict: key -> sequence of register ids
    key_count,     \* Qumquat.key_count: number of keys created
    reg_count,     \* Qumquat.reg_count: next register id
    queue_stack,   \* Qumquat.queue_stack: sequence of sequences of action tuples
    mode_stack,    \* Qumquat.mode_stack: sequence of scope tags
    garbage_stack, \* Qumquat.garbage_stack: sequence of pile names
    garbage_piles, \* Qumquat.garbage_piles: "keyless" -> stack of piles, name -> pile
    pile_stack,    \* Qumquat.pile_stack: sequence of piles
    piles,         \* the pile lists themselves: pile id -> sequence of keys
    scopes,        \* the open with-blocks of the calling program, innermost last
    err,           \* outcome of the last operation: "ok" or the exception raised
    ret,           \* value returned by the last measurement operation
    log,           \* the calls dispatched by Qumquat.call during the last operation
    hist,          \* the last operations with the state each one started from
    steps          \* number of operations performed

vars == <<branches, cells, controls, key_dict, key_count, reg_count, queue_stack,
          mode_stack, garbage_stack, garbage_piles, pile_stack, piles,
          scopes, err, ret, log, hist, steps>>

-----------------------------------------------------------------------------
(* Bounds of the model *)

MaxKeys == 3
MaxSteps == 2
MaxQueue == 2
MaxIter == 4
MaxDepth == 2
MaxVal == 3
MaxLen == 3
MaxPiles == 2

-----------------------------------------------------------------------------
(* Exact arithmetic *)

Abs(x) == IF x < 0 THEN -x ELSE x

RECURSIVE GCD(_, _)
GCD(a, b) == IF b = 0 THEN a ELSE GCD(b, a % b)

RECURSIVE SqPartFrom(_, _, _)
SqPartFrom(n, i, s) ==
    IF i * i > n THEN s
    ELSE IF n % (i * i) = 0 THEN SqPartFrom(n \div (i * i), i, s * i)
    ELSE IF n % i = 0 THEN SqPartFrom(n \div i, i + 1, s)
    ELSE SqPartFrom(n, i + 1, s)

\* the largest s with s*s dividing n (n >= 1)
SqPart(n) == SqPartFrom(n, 2, 1)

ZeroAmp == [re |-> 0, im |-> 0, den |-> 1, rad |-> 1]
OneAmp == [re |-> 1, im |-> 0, den |-> 1, rad |-> 1]
BadAmp == [re |-> 0, im |-> 0, den |-> 0, rad |-> 0]

IsBad(a) == a.den = 0

\* the canonical form of (re + i*im)/den * sqrt(rad), den >= 1, rad >= 1
MkAmp(re, im, den, rad) ==
    IF re = 0 /\ im = 0 THEN ZeroAmp
    ELSE LET s == SqPart(rad)
             f == rad \div (s * s)
             g == GCD(GCD(Abs(re * s), Abs(im * s)), den)
         IN [re |-> (re * s) \div g, im |-> (im * s) \div g,
             den |-> den \div g, rad |-> f]

AmpMul(a, b) ==
    IF IsBad(a) \/ IsBad(b) THEN BadAmp
    ELSE MkAmp(a.re * b.re - a.im * b.im, a.re * b.im + a.im * b.re,
               a.den * b.den, a.rad * b.rad)

AmpAdd(a, b) ==
    IF IsBad(a) \/ IsBad(b) THEN BadAmp
    ELSE IF a = ZeroAmp THEN b
    ELSE IF b = ZeroAmp THEN a
    ELSE IF a.rad # b.rad THEN BadAmp
    ELSE MkAmp(a.re * b.den + b.re * a.den, a.im * b.den + b.im * a.den,
               a.den * b.den, a.rad)

AmpInt(n) == MkAmp(n, 0, 1, 1)

\* p/q for integers p and q # 0
AmpRat(p, q) == IF q < 0 THEN MkAmp(-p, 0, -q, 1) ELSE MkAmp(p, 0, q, 1)

\* sqrt(p/q) for integers p >= 1, q >= 1
AmpSqrt(p, q) == MkAmp(1, 0, q, p * q)

\* |a|^2 as a reduced fraction <<numerator, denominator>>
Abs2(a) ==
    LET n == (a.re * a.re + a.im * a.im) * a.rad
        d == a.den * a.den
        g == GCD(n, d)
    IN IF IsBad(a) THEN <<0, 0>> ELSE <<n \div g, d \div g>>

RatAdd(x, y) ==
    IF x[2] = 0 \/ y[2] = 0 THEN <<0, 0>>
    ELSE LET n == x[1] * y[2] + y[1] * x[2]
             d == x[2] * y[2]
             g == GCD(n, d)
         IN <<n \div g, d \div g>>

RECURSIVE SumAbs2(_, _)
\* the total squared amplitude of the branches bs[i..]
SumAbs2(bs, i) ==
    IF i > Len(bs) THEN <<0, 1>> ELSE RatAdd(Abs2(bs[i].amp), SumAbs2(bs, i + 1))

TotalProb(bs) == SumAbs2(bs, 1)

-----------------------------------------------------------------------------
(* Enriched integers: bit i of the magnitude, the sign kept *)

RECURSIVE Pow2(_)
Pow2(i) == IF i <= 0 THEN 1 ELSE 2 * Pow2(i - 1)

GetBit(x, i) == (Abs(x) \div Pow2(i)) % 2

SetBit(x, i, bit) ==
    LET m == Abs(x) + (bit - GetBit(x, i)) * Pow2(i)
    IN IF x < 0 THEN -m ELSE m

-----------------------------------------------------------------------------
(* Expressions: constants, register reads, comparisons of a register with  *)
(* a constant.  keys is the set of keys the expression reads.              *)

Const(c) == [t |-> "const", k |-> 0, c |-> c]
KeyRead(k) == [t |-> "key", k |-> k, c |-> 0]
KeyEq(k, c) == [t |-> "eq", k |-> k, c |-> c]
KeyGt(k, c) == [t |-> "gt", k |-> k, c |-> c]

ExprKeys(e) == IF e.t = "const" THEN {} ELSE {e.k}

\* key.index(): the register id on top of the key's stack
Index(kd, k) == kd[k][Len(kd[k])]

Allocated(kd, k) == k \in DOMAIN kd /\ Len(kd[k]) > 0

\* Expression.c(branch)
Eval(kd, e, b) ==
    CASE e.t = "const" -> e.c
      [] e.t = "key" -> b.v[Index(kd, e.k)]
      [] e.t = "eq" -> IF b.v[Index(kd, e.k)] = e.c THEN 1 ELSE 0
      [] e.t = "gt" -> IF b.v[Index(kd, e.k)] > e.c THEN 1 ELSE 0

\* the three categories of val
ValExpr(e) == [cat |-> "expr", e |-> e, l |-> <<>>, d |-> <<>>]
ValList(l) == [cat |-> "list", e |-> Const(0), l |-> l, d |-> <<>>]
ValDict(d) == [cat |-> "dict", e |-> Const(0), l |-> <<>>, d |-> d]

NoVal == ValExpr(Const(0))

ValKeys(val) ==
    CASE val.cat = "expr" -> ExprKeys(val.e)
      [] val.cat = "list" -> {}
      [] val.cat = "dict" -> UNION {ExprKeys(val.d[i].e) : i \in 1..Len(val.d)}

-----------------------------------------------------------------------------
(* The simulator state as one record, and the action tuples of the queue *)

\* the value a measurement operation returns
NoRet == [tag |-> "none", val |-> <<>>, prob |-> <<0, 1>>, outcome |-> FALSE]
RetVal(x) == [NoRet EXCEPT !.tag = "value", !.val = x]
RetProb(p) == [NoRet EXCEPT !.tag = "prob", !.prob = p]
RetOutcome(o) == [NoRet EXCEPT !.tag = "outcome", !.outcome = o]

\* labels of the object a branch holds for a register: a Python int, an
\* enriched integer no other branch refers to, or (a positive label) an
\* enriched integer shared by the branches that carry the same label
PlainInt == -1
Sole == 0

\* the branches with their objects, and the two parts again
Joined(bs, cs) == [i \in 1..Len(bs) |-> [amp |-> bs[i].amp, v |-> bs[i].v, o |-> cs[i]]]
Plain(bs) == [i \in 1..Len(bs) |-> [amp |-> bs[i].amp, v |-> bs[i].v]]

\* the labels in canonical form: an object held by one branch only is Sole,
\* the shared objects of a register are numbered in the order of the branches
Cells(bs) ==
    LET with(r) == {i \in 1..Len(bs) : r \in DOMAIN bs[i].o}
        holders(r, l) == {i \in with(r) : bs[i].o[r] = l}
        first(r, l) == CHOOSE i \in holders(r, l) : \A j \in holders(r, l) : i <= j
        shared(r) == {l \in {bs[i].o[r] : i \in with(r)} :
                        l > 0 /\ Cardinality(holders(r, l)) > 1}
        rank(r, l) == Cardinality({m \in shared(r) : first(r, m) <= first(r, l)})
    IN [i \in 1..Len(bs) |->
          [r \in DOMAIN bs[i].o |->
              IF bs[i].o[r] = PlainInt THEN PlainInt
              ELSE IF bs[i].o[r] \in shared(r) THEN rank(r, bs[i].o[r])
              ELSE Sole]]

\* the largest label in use
MaxLabel(bs) ==
    LET ls == {0} \cup UNION {{bs[i].o[r] : r \in DOMAIN bs[i].o} : i \in 1..Len(bs)}
    IN CHOOSE l \in ls : \A m \in ls : m <= l

\* copy.copy(branch) of branch i: the copy refers to the objects of the branch
CopyOf(bs, i) ==
    [r \in DOMAIN bs[i].o |->
        IF bs[i].o[r] = Sole THEN MaxLabel(bs) + i ELSE bs[i].o[r]]

\* copy.deepcopy(branch): enriched integers of its own, ints stay ints
DeepCopyOf(b) ==
    [r \in DOMAIN b.o |-> IF b.o[r] = PlainInt THEN PlainInt ELSE Sole]

State == [branches |-> Joined(branches, cells), controls |-> controls, key_dict |-> key_dict,
          key_count |-> key_count, reg_count |-> reg_count,
          queue_stack |-> queue_stack, mode_stack |-> mode_stack,
          garbage_stack |-> garbage_stack, garbage_piles |-> garbage_piles,
          pile_stack |-> pile_stack, piles |-> piles,
          err |-> err, ret |-> ret, log |-> log]

\* an action tuple (op-name, args); the fields an op does not use are blank.
\* A pile is passed by reference: the tuple holds its id in `piles`
Tup(op, key, orth, val, e, e2, i, do, undo, queue) ==
    [op |-> op, key |-> key, orth |-> orth, val |-> val, e |-> e, e2 |-> e2,
     i |-> i, do |-> do, undo |-> undo, queue |-> queue, pile |-> 0, gkey |-> ""]

TAlloc(key) == Tup("alloc", key, 0, NoVal, Const(0), Const(0), 0, "", "", <<>>)
TAllocInv(key) == Tup("alloc_inv", key, 0, NoVal, Const(0), Const(0), 0, "", "", <<>>)
TInit(key, val) == Tup("init", key, 0, val, Const(0), Const(0), 0, "", "", <<>>)
TInitInv(key, val) == Tup("init_inv", key, 0, val, Const(0), Const(0), 0, "", "", <<>>)
TPerpInit(key, orth, val) ==
    Tup("perp_init", key, orth, val, Const(0), Const(0), 0, "", "", <<>>)
TPerpInitInv(key, orth, val) ==
    Tup("perp_init_inv", key, orth, val, Const(0), Const(0), 0, "", "", <<>>)
THad(key, bit) == Tup("had", key, 0, NoVal, bit, Const(0), 0, "", "", <<>>)
TQft(key, d, inverse) == Tup("qft", key, 0, NoVal, d, Const(0), inverse, "", "", <<>>)
TOper(key, e, do, undo) == Tup("oper", key, 0, NoVal, e, Const(0), 0, do, undo, <<>>)
TPhase(theta, mult) == Tup("phase", 0, 0, NoVal, theta, Const(0), mult, "", "", <<>>)
TCnot(key, idx1, idx2) == Tup("cnot", key, 0, NoVal, idx1, idx2, 0, "", "", <<>>)
TDoIf(e) == Tup("do_if", 0, 0, NoVal, e, Const(0), 0, "", "", <<>>)
TDoIfInv(e) == Tup("do_if_inv", 0, 0, NoVal, e, Const(0), 0, "", "", <<>>)
TDoWhile(queue, e, key) ==
    Tup("do_while", key, 0, NoVal, e, Const(0), 0, "", "", queue)
TDoWhileInv(queue, e, key) ==
    Tup("do_while_inv", key, 0, NoVal, e, Const(0), 0, "", "", queue)
TDoGarbage(queue, pile, gkey) ==
    [Tup("do_garbage", 0, 0, NoVal, Const(0), Const(0), 0, "", "", queue)
        EXCEPT !.pile = pile, !.gkey = gkey]
TDoGarbageInv(queue, pile, gkey) ==
    [Tup("do_garbage_inv", 0, 0, NoVal, Const(0), Const(0), 0, "", "", queue)
        EXCEPT !.pile = pile, !.gkey = gkey]

Raise(S, e) == [S EXCEPT !.err = e]

QueueOpen(S) == Len(S.queue_stack) > 0

\* a queue_action that records the call twice
QueuedTwice(S, tup) ==
    [S EXCEPT !.queue_stack[Len(S.queue_stack)] = Append(Append(@, tup), tup)]

\* Qumquat.queue_action when a queue is open: append to the top queue
Queued(S, tup) ==
    [S EXCEPT !.queue_stack[Len(S.queue_stack)] = Append(@, tup)]

\* Qumquat.assert_mutable passes
Mutable(S, key) ==
    \A i \in 1..Len(S.controls) : key \notin ExprKeys(S.controls[i])

\* goodbranch: every control is non-zero on the branch
Good(S, b) ==
    \A i \in 1..Len(S.controls) : Eval(S.key_dict, S.controls[i], b) # 0

\* the keys in ks all hold a register (key.index() is defined for them)
HaveRegs(S, ks) == \A k \in ks : Allocated(S.key_dict, k)

Idx(S, key) == Index(S.key_dict, key)

\* Qumquat.prune
prune(bs) ==
    LET kept == SelectSeq(bs, LAMBDA b : b.amp # ZeroAmp)
        tot == TotalProb(kept)
        f == IF tot[2] = 0 THEN BadAmp ELSE AmpSqrt(tot[2], tot[1])
    IN [i \in 1..Len(kept) |-> [kept[i] EXCEPT !.amp = AmpMul(@, f)]]

\* branchesEqual of perp_init, had, qft, measure_state: all registers agree
branchesEqual(b1, b2) == b1.v = b2.v

\* y, once x has a value: an operator's argument is evaluated at its first
\* use, so a loop that only hands its list on would leave one pending
\* evaluation per round, each nested in the next
Evaluated(x, y) == IF x = x THEN y ELSE y

\* the loop of insertBranch from position i on: the first equal branch
\* takes the amplitude
InsertAt(nbs, br, i) ==
    LET at == {j \in i..Len(nbs) : branchesEqual(br, nbs[j])}
        first == CHOOSE j \in at : \A h \in at : j <= h
    IN IF at = {} THEN Append(nbs, br)
       ELSE [nbs EXCEPT ![first].amp = AmpAdd(@, br.amp)]

\* insertBranch / insert: add the amplitude to an equal branch, or append
insertBranch(nbs, br) == InsertAt(nbs, br, 1)

RECURSIVE InsertAll(_, _, _)
InsertAll(nbs, brs, i) ==
    Evaluated(nbs,
        IF i > Len(brs) THEN nbs
        ELSE InsertAll(insertBranch(nbs, brs[i]), brs, i + 1))

HasBad(bs) == \E i \in 1..Len(bs) : IsBad(bs[i].amp)

\* some register holds a negative value
HasNeg(bs) == \E i \in 1..Len(bs) : \E x \in DOMAIN bs[i].v : bs[i].v[x] < 0

HasDup(l) == \E i, j \in 1..Len(l) : i < j /\ l[i] = l[j]

\* position of x in the sequence ks, 0 when absent
PosIn(ks, x) ==
    IF \E i \in 1..Len(ks) : ks[i] = x
    THEN CHOOSE i \in 1..Len(ks) : ks[i] = x /\ \A j \in 1..(i - 1) : ks[j] # x
    ELSE 0

-----------------------------------------------------------------------------
(* Alloc and dealloc *)

\* alloc that gives the new register to the active branches only
allocActiveOnly(S, key) ==
    IF QueueOpen(S) THEN Queued(S, TAlloc(key))
    ELSE IF ~Mutable(S, key) THEN Raise(S, "SyntaxError")
    ELSE IF key \notin DOMAIN S.key_dict THEN Raise(S, "KeyError")
    ELSE LET r == S.reg_count
         IN [S EXCEPT !.key_dict[key] = Append(@, r),
                      !.reg_count = r + 1,
                      !.branches = [i \in 1..Len(S.branches) |->
                          IF Good(S, S.branches[i])
                          THEN [S.branches[i] EXCEPT !.v = @ @@ (r :> 0),
                                                     !.o = @ @@ (r :> Sole)]
                          ELSE S.branches[i]]]

alloc(S, key) ==
    IF QueueOpen(S) THEN Queued(S, TAlloc(key))
    ELSE IF ~Mutable(S, key) THEN Raise(S, "SyntaxError")
    ELSE IF key \notin DOMAIN S.key_dict THEN Raise(S, "KeyError")
    ELSE LET r == S.reg_count
         IN [S EXCEPT !.key_dict[key] = Append(@, r),
                      !.reg_count = r + 1,
                      !.branches = [i \in 1..Len(S.branches) |->
                          [S.branches[i] EXCEPT !.v = @ @@ (r :> 0),
                                                !.o = @ @@ (r :> Sole)]]]

\* the pile on top of pile_stack
TopPile(S) == S.pile_stack[Len(S.pile_stack)]

\* del pile[i] for the first i with pile[i].key == key
PileRemove(pile, key) ==
    LET at == PosIn(pile, key)
    IN IF at = 0 THEN pile
       ELSE SubSeq(pile, 1, at - 1) \o SubSeq(pile, at + 1, Len(pile))

alloc_inv(S, key) ==
    IF QueueOpen(S) THEN Queued(S, TAllocInv(key))
    ELSE IF ~Mutable(S, key) THEN Raise(S, "SyntaxError")
    ELSE IF ~HaveRegs(S, {key}) THEN Raise(S, "IndexError")
    ELSE LET r == Idx(S, key)
             S1 == [S EXCEPT !.key_dict[key] = SubSeq(@, 1, Len(@) - 1),
                             !.branches = [i \in 1..Len(S.branches) |->
                                 [S.branches[i] EXCEPT
                                     !.v = [x \in (DOMAIN @) \ {r} |-> @[x]],
                                     !.o = [x \in (DOMAIN @) \ {r} |-> @[x]]]]]
         IN IF Len(S1.pile_stack) > 0 /\ ~Allocated(S1.key_dict, key)
            THEN [S1 EXCEPT !.piles[TopPile(S1)] = PileRemove(@, key)]
            ELSE S1

-----------------------------------------------------------------------------
(* init *)

RECURSIVE InitListFrom(_, _, _, _)
InitListFrom(S, r, l, i) ==
    IF i > Len(S.branches) THEN <<>>
    ELSE LET b == S.branches[i]
             new == IF Good(S, b)
                    THEN [j \in 1..Len(l) |->
                            [amp |-> AmpMul(b.amp, AmpSqrt(1, Len(l))),
                             v |-> [b.v EXCEPT ![r] = l[j]],
                             o |-> [CopyOf(S.branches, i) EXCEPT ![r] = Sole]]]
                    ELSE <<b>>
         IN new \o InitListFrom(S, r, l, i + 1)

\* sum over the dictionary of |val[k].c(branch)|^2
DictNorm(S, d, b) ==
    LET RECURSIVE Sum(_)
        Sum(i) == IF i > Len(d) THEN 0
                  ELSE Eval(S.key_dict, d[i].e, b) * Eval(S.key_dict, d[i].e, b)
                       + Sum(i + 1)
    IN Sum(1)

\* first index of k among the dictionary's keys, 0 when absent
DictPos(d, k) ==
    IF \E i \in 1..Len(d) : d[i].k = k
    THEN CHOOSE i \in 1..Len(d) : d[i].k = k /\ \A j \in 1..(i - 1) : d[j].k # k
    ELSE 0

RECURSIVE InitDictFrom(_, _, _, _)
\* the new branch list, or <<>> with failed = TRUE when a norm is zero
InitDictFrom(S, r, d, i) ==
    IF i > Len(S.branches) THEN [failed |-> FALSE, bs |-> <<>>]
    ELSE LET b == S.branches[i]
             norm == DictNorm(S, d, b)
             all == [j \in 1..Len(d) |->
                       [amp |-> AmpMul(b.amp,
                                  AmpMul(AmpInt(Eval(S.key_dict, d[j].e, b)),
                                         AmpSqrt(1, norm))),
                        v |-> [b.v EXCEPT ![r] = d[j].k],
                        o |-> [CopyOf(S.branches, i) EXCEPT ![r] = Sole]]]
             rest == InitDictFrom(S, r, d, i + 1)
         IN IF ~Good(S, b) THEN [rest EXCEPT !.bs = <<b>> \o @]
            ELSE IF norm = 0 THEN [failed |-> TRUE, bs |-> <<>>]
            ELSE [rest EXCEPT
                    !.bs = SelectSeq(all, LAMBDA x : x.amp # ZeroAmp) \o @]

init(S, key, val) ==
    IF QueueOpen(S) THEN Queued(S, TInit(key, val))
    ELSE IF ~Mutable(S, key) THEN Raise(S, "SyntaxError")
    ELSE IF ~HaveRegs(S, {key} \cup ValKeys(val)) THEN Raise(S, "IndexError")
    ELSE IF \E i \in 1..Len(S.branches) :
                Good(S, S.branches[i]) /\ S.branches[i].v[Idx(S, key)] # 0
         THEN Raise(S, "ValueError")
    ELSE LET r == Idx(S, key)
         IN CASE val.cat = "expr" ->
                   [S EXCEPT !.branches = [i \in 1..Len(S.branches) |->
                       IF Good(S, S.branches[i])
                       THEN [S.branches[i] EXCEPT
                               !.v[r] = Eval(S.key_dict, val.e, S.branches[i]),
                               !.o[r] = Sole]
                       ELSE S.branches[i]]]
              [] val.cat = "list" ->
                   IF HasDup(val.l) THEN Raise(S, "ValueError")
                   ELSE [S EXCEPT !.branches = InitListFrom(S, r, val.l, 1)]
              [] val.cat = "dict" ->
                   LET res == InitDictFrom(S, r, val.d, 1)
                   IN IF res.failed THEN Raise(S, "ValueError")
                      ELSE [S EXCEPT !.branches = res.bs]

-----------------------------------------------------------------------------
(* init_inv *)

\* b agrees with nb on every register but r
EqualBut(nb, b, r) == \A x \in (DOMAIN b.v) \ {r} : nb.v[x] = b.v[x]

\* the first j not in found with newbranches[j] equal to b up to register r,
\* amplitude included; 0 when there is none
Partner(nbs, b, r, found) ==
    LET ok(j) == j \notin found /\ nbs[j].amp = b.amp /\ EqualBut(nbs[j], b, r)
    IN IF \E j \in 1..Len(nbs) : ok(j)
       THEN CHOOSE j \in 1..Len(nbs) : ok(j) /\ \A h \in 1..(j - 1) : ~ok(h)
       ELSE 0

RECURSIVE MatchItem(_, _, _, _, _, _)
\* the branches holding x each find their own partner in newbranches
MatchItem(S, r, nbs, x, i, found) ==
    IF i > Len(S.branches) THEN Cardinality(found) = Len(nbs)
    ELSE LET b == S.branches[i]
         IN IF ~Good(S, b) \/ b.v[r] # x
            THEN MatchItem(S, r, nbs, x, i + 1, found)
            ELSE LET j == Partner(nbs, b, r, found)
                 IN IF j = 0 THEN FALSE
                    ELSE MatchItem(S, r, nbs, x, i + 1, found \cup {j})

InitInvList(S, r, l) ==
    LET first == SelectSeq(S.branches, LAMBDA b : Good(S, b) /\ b.v[r] = l[1])
        newbranches == [i \in 1..Len(first) |->
                          [first[i] EXCEPT !.v[r] = 0, !.o[r] = PlainInt]]
        untouched == SelectSeq(S.branches, LAMBDA b : ~Good(S, b))
    IN IF Len(S.branches) # Len(newbranches) * Len(l) + Len(untouched)
       THEN Raise(S, "ValueError")
       ELSE IF \E i \in 2..Len(l) : ~MatchItem(S, r, newbranches, l[i], 1, {})
       THEN Raise(S, "ValueError")
       ELSE [S EXCEPT !.branches =
               [i \in 1..Len(newbranches) |->
                   [newbranches[i] EXCEPT
                       !.amp = AmpMul(@, AmpSqrt(Len(l), 1))]] \o untouched]

RECURSIVE InitInvDictFrom(_, _, _, _, _)
\* the merged branches, or the exception raised on the way
InitInvDictFrom(S, r, d, i, nbs) ==
    Evaluated(nbs,
    IF i > Len(S.branches) THEN [err |-> "ok", bs |-> nbs]
    ELSE LET b == S.branches[i]
             pos == DictPos(d, b.v[r])
             dict_amp == Eval(S.key_dict, d[pos].e, b)
             amp == AmpMul(AmpMul(b.amp, AmpRat(1, dict_amp)),
                           AmpSqrt(DictNorm(S, d, b), 1))
             same == {j \in 1..Len(nbs) : EqualBut(nbs[j], b, r)}
         IN IF ~Good(S, b) THEN InitInvDictFrom(S, r, d, i + 1, nbs)
            ELSE IF pos = 0 THEN [err |-> "KeyError", bs |-> <<>>]
            ELSE IF dict_amp = 0 THEN [err |-> "ValueError", bs |-> <<>>]
            ELSE IF same # {}
                 THEN IF nbs[CHOOSE j \in same : \A h \in same : j <= h].amp # amp
                      THEN [err |-> "ValueError", bs |-> <<>>]
                      ELSE InitInvDictFrom(S, r, d, i + 1, nbs)
            ELSE InitInvDictFrom(S, r, d, i + 1,
                     Append(nbs, [amp |-> amp, v |-> [b.v EXCEPT ![r] = 0],
                                  o |-> [b.o EXCEPT ![r] = Sole]])))

init_inv(S, key, val) ==
    IF QueueOpen(S) THEN Queued(S, TInitInv(key, val))
    ELSE IF ~Mutable(S, key) THEN Raise(S, "SyntaxError")
    ELSE IF ~HaveRegs(S, {key} \cup ValKeys(val)) THEN Raise(S, "IndexError")
    ELSE LET r == Idx(S, key)
         IN CASE val.cat = "expr" ->
                   IF \E i \in 1..Len(S.branches) :
                        S.branches[i].v[r] #
                            (IF Good(S, S.branches[i])
                             THEN Eval(S.key_dict, val.e, S.branches[i]) ELSE 0)
                   THEN Raise(S, "ValueError")
                   ELSE S
              [] val.cat = "list" ->
                   IF HasDup(val.l) THEN Raise(S, "TypeError")
                   ELSE InitInvList(S, r, val.l)
              [] val.cat = "dict" ->
                   LET res == InitInvDictFrom(S, r, val.d, 1, <<>>)
                       untouched == SelectSeq(S.branches, LAMBDA b : ~Good(S, b))
                   IN IF res.err # "ok" THEN Raise(S, res.err)
                      ELSE [S EXCEPT !.branches = res.bs \o untouched]

-----------------------------------------------------------------------------
(* reg and clean *)

\* Key(self): a new key, holding no register yet
NewKey(S) ==
    [S EXCEPT !.key_count = @ + 1, !.key_dict = @ @@ ((S.key_count + 1) :> <<>>)]

\* Qumquat.reg for one value: a new key, allocated and initialised
reg(S, val) ==
    LET S0 == NewKey(S)
        key == S0.key_count
        gkey == S0.garbage_stack[Len(S0.garbage_stack)]
        pile == IF gkey = "keyless"
                THEN S0.garbage_piles.keyless[Len(S0.garbage_piles.keyless)]
                ELSE S0.garbage_piles.named[gkey]
        S1 == IF Len(S0.garbage_stack) > 0
              THEN [S0 EXCEPT !.piles[pile] = Append(@, key)]
              ELSE S0
        S2 == alloc(S1, key)
    IN IF S2.err # "ok" THEN S2 ELSE init(S2, key, val)

\* Qumquat.clean
clean(S, key, val) ==
    LET S1 == init_inv(S, key, val)
    IN IF S1.err # "ok" THEN S1 ELSE alloc_inv(S1, key)

\* the names the programs give to their garbage piles
PileNames == {"g"}

Fresh ==
    [branches |-> <<[amp |-> OneAmp, v |-> <<>>, o |-> <<>>]>>, controls |-> <<>>,
     key_dict |-> <<>>, key_count |-> 0, reg_count |-> 0, queue_stack |-> <<>>,
     mode_stack |-> <<>>, garbage_stack |-> <<>>,
     garbage_piles |-> [keyless |-> <<>>, named |-> [n \in PileNames |-> 0]],
     pile_stack |-> <<>>, piles |-> <<>>,
     err |-> "ok", ret |-> NoRet, log |-> <<>>]

\* a clear that starts the register ids anew as well
clearResetCount(S) ==
    IF Len(S.controls) > 0 \/ Len(S.queue_stack) > 0
          \/ Len(S.garbage_stack) > 0 \/ Len(S.mode_stack) > 0
    THEN Raise(S, "SyntaxError")
    ELSE [S EXCEPT !.key_dict = <<>>, !.pile_stack = <<>>,
                   !.garbage_piles = Fresh.garbage_piles,
                   !.garbage_stack = <<>>, !.branches = Fresh.branches,
                   !.reg_count = 0]

\* Qumquat.clear: the keys made so far are no longer in key_dict; key_count
\* and reg_count stay
clear(S) ==
    IF Len(S.controls) > 0 \/ Len(S.queue_stack) > 0
          \/ Len(S.garbage_stack) > 0 \/ Len(S.mode_stack) > 0
    THEN Raise(S, "SyntaxError")
    ELSE [S EXCEPT !.key_dict = <<>>, !.pile_stack = <<>>,
                   !.garbage_piles = Fresh.garbage_piles,
                   !.garbage_stack = <<>>, !.branches = Fresh.branches]

-----------------------------------------------------------------------------
(* perp_init and perp_init_inv *)

\* the 2N branches br0, br1 made from a branch whose key is ks[pos]: the
\* component along the state (orth kept) and the residual (orth set, or
\* flipped by the inverse); cf are the coefficients, norm their squared sum
PerpSplit(b, rk, ro, ks, cf, norm, inverse) ==
    LET pos == PosIn(ks, b.v[rk])
        proj(j) == AmpRat(cf[pos] * cf[j], norm)
        delta(j) == IF j = pos THEN OneAmp ELSE ZeroAmp
        br0(j) == [amp |-> AmpMul(b.amp, proj(j)),
                   v |-> [b.v EXCEPT ![rk] = ks[j]],
                   o |-> [DeepCopyOf(b) EXCEPT ![rk] = PlainInt]]
        br1(j) == [amp |-> AmpMul(b.amp,
                              AmpAdd(delta(j), AmpMul(AmpInt(-1), proj(j)))),
                   v |-> [b.v EXCEPT ![rk] = ks[j],
                                     ![ro] = IF inverse THEN 1 - b.v[ro] ELSE 1],
                   o |-> [DeepCopyOf(b) EXCEPT ![rk] = PlainInt, ![ro] = Sole]]
    IN [h \in 1..(2 * Len(ks)) |->
          IF h % 2 = 1 THEN br0((h + 1) \div 2) ELSE br1(h \div 2)]

DictKeySeq(d) == [i \in 1..Len(d) |-> d[i].k]
DictCoef(S, d, b) == [i \in 1..Len(d) |-> Eval(S.key_dict, d[i].e, b)]
Ones(l) == [i \in 1..Len(l) |-> 1]

RECURSIVE PerpLoop(_, _, _, _, _, _, _, _)
\* the loop over self.branches of perp_init (inverse = FALSE) and of
\* perp_init_inv (inverse = TRUE) for a list or a dictionary: nbs is
\* newbranches, old is self.branches with the writes made in place so far
PerpLoop(S, rk, ro, val, inverse, i, nbs, old) ==
    Evaluated(<<nbs, old>>,
    IF i > Len(S.branches) THEN [err |-> "ok", bs |-> nbs, old |-> old]
    ELSE LET b == S.branches[i]
             ks == IF val.cat = "list" THEN val.l ELSE DictKeySeq(val.d)
             cf == IF val.cat = "list" THEN Ones(val.l) ELSE DictCoef(S, val.d, b)
             norm == IF val.cat = "list" THEN Len(val.l) ELSE DictNorm(S, val.d, b)
             flipped == [b EXCEPT !.v[ro] = IF inverse THEN 0 ELSE 1, !.o[ro] = Sole]
         IN IF ~Good(S, b)
            THEN IF inverse /\ b.v[ro] # 0
                 THEN [err |-> "ValueError", bs |-> nbs, old |-> old]
                 ELSE PerpLoop(S, rk, ro, val, inverse, i + 1, Append(nbs, b), old)
            ELSE IF val.cat = "dict" /\ norm = 0
                 THEN [err |-> "ValueError", bs |-> nbs, old |-> old]
            ELSE IF PosIn(ks, b.v[rk]) = 0
                 THEN IF inverse /\ b.v[ro] # 1
                      THEN [err |-> "ValueError", bs |-> nbs, old |-> old]
                      ELSE PerpLoop(S, rk, ro, val, inverse, i + 1,
                                    Append(nbs, flipped),
                                    [old EXCEPT ![i] = flipped])
            ELSE PerpLoop(S, rk, ro, val, inverse, i + 1,
                          InsertAll(nbs, PerpSplit(b, rk, ro, ks, cf, norm, inverse), 1),
                          old))

perp_init(S, key, orth, val) ==
    IF QueueOpen(S) THEN Queued(S, TPerpInit(key, orth, val))
    ELSE IF ~Mutable(S, orth) THEN Raise(S, "SyntaxError")
    ELSE IF ~HaveRegs(S, {key, orth} \cup ValKeys(val)) THEN Raise(S, "IndexError")
    ELSE IF \E i \in 1..Len(S.branches) :
                Good(S, S.branches[i]) /\ S.branches[i].v[Idx(S, orth)] # 0
         THEN Raise(S, "ValueError")
    ELSE LET rk == Idx(S, key)
             ro == Idx(S, orth)
             res == PerpLoop(S, rk, ro, val, FALSE, 1, <<>>, S.branches)
         IN CASE val.cat = "expr" ->
                   [S EXCEPT !.branches = [i \in 1..Len(S.branches) |->
                       IF Good(S, S.branches[i])
                       THEN [S.branches[i] EXCEPT !.v[ro] =
                               IF S.branches[i].v[rk] #
                                    Eval(S.key_dict, val.e, S.branches[i])
                               THEN 1 ELSE 0,
                               !.o[ro] = Sole]
                       ELSE S.branches[i]]]
              [] val.cat = "list" ->
                   IF HasDup(val.l) THEN Raise(S, "ValueError")
                   ELSE [S EXCEPT !.branches = prune(res.bs)]
              [] val.cat = "dict" ->
                   IF {key, orth} \cap ValKeys(val) # {} THEN Raise(S, "SyntaxError")
                   ELSE IF res.err # "ok"
                        THEN [S EXCEPT !.branches = res.old, !.err = res.err]
                        ELSE [S EXCEPT !.branches = prune(res.bs)]

\* the result of the Expression loop of perp_init_inv: every branch before
\* the first one whose orth is not the expected bit has had its KEY zeroed
PerpInvExpr(S, rk, ro, e) ==
    LET target(b) == IF Good(S, b)
                     THEN (IF b.v[rk] # Eval(S.key_dict, e, b) THEN 1 ELSE 0)
                     ELSE 0
        bad == {i \in 1..Len(S.branches) :
                   S.branches[i].v[ro] # target(S.branches[i])}
        stop == IF bad = {} THEN Len(S.branches) + 1
                ELSE CHOOSE i \in bad : \A j \in bad : i <= j
    IN [S EXCEPT !.branches = [i \in 1..Len(S.branches) |->
                     IF i < stop THEN [S.branches[i] EXCEPT !.v[rk] = 0, !.o[rk] = Sole]
                     ELSE S.branches[i]],
                 !.err = IF bad = {} THEN "ok" ELSE "ValueError"]

\* the list and dictionary cases of perp_init_inv after the validity checks
PerpInvState(S, rk, ro, val) ==
    LET res == PerpLoop(S, rk, ro, val, TRUE, 1, <<>>, S.branches)
        pruned == prune(res.bs)
    IN IF res.err # "ok" THEN [S EXCEPT !.branches = res.old, !.err = res.err]
       ELSE [S EXCEPT !.branches = pruned,
                      !.err = IF \E i \in 1..Len(pruned) : pruned[i].v[ro] # 0
                              THEN "ValueError" ELSE "ok"]

perp_init_inv(S, key, orth, val) ==
    IF QueueOpen(S) THEN Queued(S, TPerpInitInv(key, orth, val))
    ELSE IF ~Mutable(S, key) THEN Raise(S, "SyntaxError")
    ELSE IF ~HaveRegs(S, {key, orth} \cup ValKeys(val)) THEN Raise(S, "IndexError")
    ELSE LET rk == Idx(S, key)
             ro == Idx(S, orth)
         IN CASE val.cat = "expr" -> PerpInvExpr(S, rk, ro, val.e)
              [] val.cat = "list" ->
                   IF HasDup(val.l) THEN Raise(S, "ValueError")
                   ELSE PerpInvState(S, rk, ro, val)
              [] val.cat = "dict" ->
                   IF {key, orth} \cap ValKeys(val) # {} THEN Raise(S, "SyntaxError")
                   ELSE PerpInvState(S, rk, ro, val)

-----------------------------------------------------------------------------
(* had, qft, oper, phase, cnot *)

RECURSIVE HadLoop(_, _, _, _, _)
\* had without the sign of the branch whose bit was 1
HadLoopNoSign(S, r, bit, i, nbs) ==
    Evaluated(nbs,
    IF i > Len(S.branches) THEN nbs
    ELSE LET b == S.branches[i]
             idx == Eval(S.key_dict, bit, b)
             half == AmpMul(b.amp, AmpSqrt(1, 2))
             newbranch1 == [amp |-> half, v |-> [b.v EXCEPT ![r] = SetBit(@, idx, 0)],
                            o |-> [DeepCopyOf(b) EXCEPT ![r] = Sole]]
             newbranch2 == [amp |-> half, v |-> [b.v EXCEPT ![r] = SetBit(@, idx, 1)],
                            o |-> [DeepCopyOf(b) EXCEPT ![r] = Sole]]
         IN IF ~Good(S, b) THEN HadLoop(S, r, bit, i + 1, insertBranch(nbs, b))
            ELSE HadLoop(S, r, bit, i + 1,
                         insertBranch(insertBranch(nbs, newbranch1), newbranch2)))

\* the loop over self.branches of had: nbs is newbranches
HadLoop(S, r, bit, i, nbs) ==
    Evaluated(nbs,
    IF i > Len(S.branches) THEN nbs
    ELSE LET b == S.branches[i]
             idx == Eval(S.key_dict, bit, b)
             half == AmpMul(b.amp, AmpSqrt(1, 2))
             newbranch1 == [amp |-> half, v |-> [b.v EXCEPT ![r] = SetBit(@, idx, 0)],
                            o |-> [DeepCopyOf(b) EXCEPT ![r] = Sole]]
             newbranch2 == [amp |-> IF GetBit(b.v[r], idx) = 1
                                    THEN AmpMul(half, AmpInt(-1)) ELSE half,
                            v |-> [b.v EXCEPT ![r] = SetBit(@, idx, 1)],
                            o |-> [DeepCopyOf(b) EXCEPT ![r] = Sole]]
         IN IF ~Good(S, b) THEN HadLoop(S, r, bit, i + 1, insertBranch(nbs, b))
            ELSE HadLoop(S, r, bit, i + 1,
                         insertBranch(insertBranch(nbs, newbranch1), newbranch2)))

had(S, key, bit) ==
    IF QueueOpen(S) THEN Queued(S, THad(key, bit))
    ELSE IF ~Mutable(S, key) THEN Raise(S, "SyntaxError")
    ELSE IF key \in ExprKeys(bit) THEN Raise(S, "SyntaxError")
    ELSE IF ~HaveRegs(S, {key} \cup ExprKeys(bit)) THEN Raise(S, "IndexError")
    ELSE [S EXCEPT !.branches = prune(HadLoop(S, Idx(S, key), bit, 1, <<>>))]

had_inv(S, key, bit) == had(S, key, bit)

\* exp(2*pi*i*m/d), or its conjugate, when it is a 4th root of unity
RootOfUnity(m, d, inverse) ==
    LET q == IF inverse THEN ((0 - 4 * m) \div d) % 4 ELSE ((4 * m) \div d) % 4
    IN IF (4 * m) % d # 0 THEN BadAmp
       ELSE CASE q = 0 -> OneAmp
              [] q = 1 -> MkAmp(0, 1, 1, 1)
              [] q = 2 -> MkAmp(-1, 0, 1, 1)
              [] q = 3 -> MkAmp(0, -1, 1, 1)

RECURSIVE QftLoop(_, _, _, _, _, _)
QftLoop(S, r, d, inverse, i, nbs) ==
    Evaluated(nbs,
    IF i > Len(S.branches) THEN nbs
    ELSE LET b == S.branches[i]
             dval == Eval(S.key_dict, d, b)
             base == b.v[r] - (b.v[r] % dval)
             new == [n \in 1..dval |->
                       [amp |-> AmpMul(AmpMul(b.amp, AmpSqrt(1, dval)),
                                       RootOfUnity(b.v[r] * (n - 1), dval, inverse)),
                        v |-> [b.v EXCEPT ![r] = (n - 1) + base],
                        o |-> [DeepCopyOf(b) EXCEPT ![r] = Sole]]]
         IN IF ~Good(S, b) THEN QftLoop(S, r, d, inverse, i + 1, insertBranch(nbs, b))
            ELSE QftLoop(S, r, d, inverse, i + 1, InsertAll(nbs, new, 1)))

qft(S, key, d, inverse) ==
    IF QueueOpen(S) THEN Queued(S, TQft(key, d, IF inverse THEN 1 ELSE 0))
    ELSE IF ~Mutable(S, key) THEN Raise(S, "SyntaxError")
    ELSE IF key \in ExprKeys(d) THEN Raise(S, "SyntaxError")
    ELSE IF ~HaveRegs(S, {key} \cup ExprKeys(d)) THEN Raise(S, "IndexError")
    ELSE LET r == Idx(S, key)
             small(i) == Eval(S.key_dict, d, S.branches[i]) <= 1
             bad == {i \in 1..Len(S.branches) :
                        Good(S, S.branches[i])
                        /\ (small(i) \/ S.branches[i].o[r] = PlainInt)}
         IN IF bad # {}
            THEN Raise(S, IF small(CHOOSE i \in bad : \A j \in bad : i <= j)
                          THEN "ValueError" ELSE "AttributeError")
            ELSE [S EXCEPT !.branches = prune(QftLoop(S, r, d, inverse, 1, <<>>))]

qft_inv(S, key, d, inverse) == qft(S, key, d, ~inverse)

\* the do and undo functions of += and -=
Apply(f, x, y) == IF f = "add" THEN x + y ELSE x - y

oper(S, key, e, do, undo) ==
    IF QueueOpen(S) THEN Queued(S, TOper(key, e, do, undo))
    ELSE IF ~Mutable(S, key) THEN Raise(S, "SyntaxError")
    ELSE IF key \in ExprKeys(e) THEN Raise(S, "SyntaxError")
    ELSE IF ~HaveRegs(S, {key} \cup ExprKeys(e)) THEN Raise(S, "IndexError")
    ELSE [S EXCEPT !.branches = [i \in 1..Len(S.branches) |->
            IF Good(S, S.branches[i])
            THEN [S.branches[i] EXCEPT !.v[Idx(S, key)] =
                    Apply(do, @, Eval(S.key_dict, e, S.branches[i])),
                    !.o[Idx(S, key)] = Sole]
            ELSE S.branches[i]]]

oper_inv(S, key, e, do, undo) == oper(S, key, e, undo, do)

\* phase by theta = mult * e quarter turns (mult * e * pi / 2)
phase(S, theta, mult) ==
    IF QueueOpen(S) THEN Queued(S, TPhase(theta, mult))
    ELSE IF ~HaveRegs(S, ExprKeys(theta)) THEN Raise(S, "IndexError")
    ELSE [S EXCEPT !.branches = [i \in 1..Len(S.branches) |->
            IF Good(S, S.branches[i])
            THEN [S.branches[i] EXCEPT !.amp =
                    AmpMul(@, RootOfUnity(mult * Eval(S.key_dict, theta, S.branches[i]),
                                          4, FALSE))]
            ELSE S.branches[i]]]

phase_inv(S, theta, mult) == phase(S, theta, 0 - mult)

\* branch[r][i] = bit on branch at: the write goes into the object, which
\* every branch with the same label holds
WriteBit(bs, at, r, i, bit) ==
    [j \in 1..Len(bs) |->
        IF j = at \/ (bs[at].o[r] > 0 /\ bs[j].o[r] = bs[at].o[r])
        THEN [bs[j] EXCEPT !.v[r] = SetBit(@, i, bit)]
        ELSE bs[j]]

RECURSIVE CnotLoop(_, _, _, _, _, _)
\* the loop of cnot over the controlled branches: bs is self.branches with
\* the writes made so far.  It stops at the first active branch whose two
\* indices are equal, or whose register is a Python int (no item access)
CnotLoop(S, r, idx1, idx2, i, bs) ==
    Evaluated(bs,
    IF i > Len(bs) THEN [err |-> "ok", bs |-> bs]
    ELSE LET b == bs[i]
             v_idx1 == Eval(S.key_dict, idx1, b)
             v_idx2 == Eval(S.key_dict, idx2, b)
         IN IF ~Good(S, S.branches[i]) THEN CnotLoop(S, r, idx1, idx2, i + 1, bs)
            ELSE IF v_idx1 = v_idx2 THEN [err |-> "ValueError", bs |-> bs]
            ELSE IF b.o[r] = PlainInt THEN [err |-> "TypeError", bs |-> bs]
            ELSE IF GetBit(b.v[r], v_idx1) = 1
                 THEN CnotLoop(S, r, idx1, idx2, i + 1,
                               WriteBit(bs, i, r, v_idx2, 1 - GetBit(b.v[r], v_idx2)))
                 ELSE CnotLoop(S, r, idx1, idx2, i + 1, bs))

cnot(S, key, idx1, idx2) ==
    IF QueueOpen(S) THEN Queued(S, TCnot(key, idx1, idx2))
    ELSE IF ~Mutable(S, key) THEN Raise(S, "SyntaxError")
    ELSE IF key \in ExprKeys(idx1) \cup ExprKeys(idx2) THEN Raise(S, "SyntaxError")
    ELSE IF ~HaveRegs(S, {key} \cup ExprKeys(idx1) \cup ExprKeys(idx2))
         THEN Raise(S, "IndexError")
    ELSE LET res == CnotLoop(S, Idx(S, key), idx1, idx2, 1, S.branches)
         IN [S EXCEPT !.branches = res.bs, !.err = res.err]

cnot_inv(S, key, idx1, idx2) == cnot(S, key, idx1, idx2)

-----------------------------------------------------------------------------
(* Measurement *)

\* the values of the expressions on a branch, as dist groups them
ValuesOn(S, exprs, b) == [i \in 1..Len(exprs) |-> Eval(S.key_dict, exprs[i], b)]

\* a / sqrt(p) for a fraction p > 0
DivSqrt(a, p) == IF p[1] <= 0 \/ p[2] <= 0 THEN BadAmp ELSE AmpMul(a, AmpSqrt(p[2], p[1]))

Rescale(bs, p) == [i \in 1..Len(bs) |-> [bs[i] EXCEPT !.amp = DivSqrt(@, p)]]

\* 1 - p for a fraction p
RatCompl(p) == IF p[2] = 0 THEN <<0, 0>> ELSE <<p[2] - p[1], p[2]>>

SeqKeys(exprs) == UNION {ExprKeys(exprs[i]) : i \in 1..Len(exprs)}

\* the outcomes measure can pick: the values with non-zero probability
Outcomes(S, exprs) ==
    {ValuesOn(S, exprs, S.branches[i]) : i \in
        {j \in 1..Len(S.branches) : S.branches[j].amp # ZeroAmp}}

\* measure collapsing without dividing the amplitudes
measureNoRescale(S, exprs, pick) ==
    IF Len(S.mode_stack) > 0 THEN Raise(S, "SyntaxError")
    ELSE IF ~HaveRegs(S, SeqKeys(exprs)) THEN Raise(S, "IndexError")
    ELSE [S EXCEPT !.branches = SelectSeq(S.branches,
                                    LAMBDA b : ValuesOn(S, exprs, b) = pick),
                   !.ret = RetVal(pick)]

\* Qumquat.measure with the random draw falling on the outcome pick
measure(S, exprs, pick) ==
    IF Len(S.mode_stack) > 0 THEN Raise(S, "SyntaxError")
    ELSE IF ~HaveRegs(S, SeqKeys(exprs)) THEN Raise(S, "IndexError")
    ELSE LET chosen == SelectSeq(S.branches,
                                 LAMBDA b : ValuesOn(S, exprs, b) = pick)
         IN [S EXCEPT !.branches = Rescale(chosen, TotalProb(chosen)),
                      !.ret = RetVal(pick)]

\* postselect returning the probability of the branches it leaves
postselectProbAfter(S, e) ==
    IF Len(S.mode_stack) > 0 THEN Raise(S, "SyntaxError")
    ELSE IF ~HaveRegs(S, ExprKeys(e)) THEN Raise(S, "IndexError")
    ELSE LET newbranches == SelectSeq(S.branches,
                                      LAMBDA b : Eval(S.key_dict, e, b) # 0)
             prob == TotalProb(newbranches)
         IN IF Len(newbranches) = 0 THEN Raise(S, "ValueError")
            ELSE [S EXCEPT !.branches = Rescale(newbranches, prob),
                           !.ret = RetProb(TotalProb(Rescale(newbranches, prob)))]

\* Qumquat.postselect
postselect(S, e) ==
    IF Len(S.mode_stack) > 0 THEN Raise(S, "SyntaxError")
    ELSE IF ~HaveRegs(S, ExprKeys(e)) THEN Raise(S, "IndexError")
    ELSE LET newbranches == SelectSeq(S.branches,
                                      LAMBDA b : Eval(S.key_dict, e, b) # 0)
             prob == TotalProb(newbranches)
         IN IF Len(newbranches) = 0 THEN Raise(S, "ValueError")
            ELSE [S EXCEPT !.branches = Rescale(newbranches, prob),
                           !.ret = RetProb(prob)]

-----------------------------------------------------------------------------
(* measure_state *)

AmpConj(a) == IF IsBad(a) THEN BadAmp ELSE [a EXCEPT !.im = 0 - a.im]

RECURSIVE AmpSumFrom(_, _, _, _)
\* the inner loop, for b2 in self.branches: prob += as[i] for i up to last
AmpSumFrom(as, i, last, prob) ==
    Evaluated(prob,
        IF i > last THEN prob
        ELSE AmpSumFrom(as, i + 1, last, AmpAdd(prob, as[i])))

RECURSIVE AmpSumRows(_, _, _, _)
\* the outer loop, for b1 in self.branches, over the rows of n terms
AmpSumRows(as, n, row, prob) ==
    Evaluated(prob,
        IF row > n THEN prob
        ELSE AmpSumRows(as, n, row + 1,
                        AmpSumFrom(as, (row - 1) * n + 1, row * n, prob)))

\* the sum of the n * n terms as[(i - 1) * n + j] of the pairs (b1, b2),
\* added in the order of the two loops
AmpSum(as, n) == AmpSumRows(as, n, 1, ZeroAmp)

\* the real part of a, when it is a fraction
RealPart(a) == IF IsBad(a) \/ (a.rad # 1 /\ a.re # 0) THEN <<0, 0>>
               ELSE LET g == GCD(Abs(a.re), a.den) IN <<a.re \div g, a.den \div g>>

RatDivInt(p, n) == IF p[2] = 0 THEN <<0, 0>>
                   ELSE LET g == GCD(p[1], p[2] * n) IN <<p[1] \div g, (p[2] * n) \div g>>

\* the branches of the projected state for a list or a dictionary: each
\* branch gives one branch per value ks[j], zero amplitudes left out; cf
\* are the coefficients and norm the norm the code uses for the branch (for
\* a dictionary the norm is computed on b1, by then the last branch)
RECURSIVE ProjectLoop(_, _, _, _, _, _)
ProjectLoop(S, r, val, outcome, i, nbs) ==
    Evaluated(nbs,
    IF i > Len(S.branches) THEN nbs
    ELSE LET b == S.branches[i]
             last == S.branches[Len(S.branches)]
             ks == IF val.cat = "list" THEN val.l ELSE DictKeySeq(val.d)
             cf == IF val.cat = "list" THEN Ones(val.l) ELSE DictCoef(S, val.d, b)
             norm == IF val.cat = "list" THEN Len(val.l) ELSE DictNorm(S, val.d, last)
             pos == PosIn(ks, b.v[r])
             proj(j) == AmpRat(cf[pos] * cf[j], norm)
             amp(j) == IF pos = 0 THEN ZeroAmp
                       ELSE IF outcome THEN AmpMul(b.amp, proj(j))
                       ELSE AmpMul(b.amp,
                              AmpAdd(IF j = pos THEN OneAmp ELSE ZeroAmp,
                                     AmpMul(AmpInt(-1), proj(j))))
             new == SelectSeq([j \in 1..Len(ks) |->
                                  [amp |-> amp(j), v |-> [b.v EXCEPT ![r] = ks[j]],
                                   o |-> [DeepCopyOf(b) EXCEPT ![r] = PlainInt]]],
                              LAMBDA x : x.amp # ZeroAmp)
         IN ProjectLoop(S, r, val, outcome, i + 1, InsertAll(nbs, new, 1)))

\* the probability of the list case: the sum over all pairs of branches
\* whose keys both lie in the list of amp1 * conj(amp2), divided by N
ListProb(S, r, l) ==
    LET inl == SelectSeq(S.branches, LAMBDA b : PosIn(l, b.v[r]) # 0)
        terms == [h \in 1..(Len(inl) * Len(inl)) |->
                    AmpMul(inl[((h - 1) \div Len(inl)) + 1].amp,
                           AmpConj(inl[((h - 1) % Len(inl)) + 1].amp))]
    IN RatDivInt(RealPart(AmpSum(terms, Len(inl))), Len(l))

\* the registers the dictionary case compares: b1[k] for the key ids k read
\* by the dictionary's expressions (key ids count from 0, like register ids)
DictControls(val) == {k - 1 : k \in ValKeys(val)}

\* the probability of the dictionary case
DictProb(S, r, val) ==
    LET d == val.d
        n == Len(S.branches)
        b1(h) == S.branches[((h - 1) \div n) + 1]
        b2(h) == S.branches[((h - 1) % n) + 1]
        good(h) == \A k \in DictControls(val) : b1(h).v[k] = b2(h).v[k]
        term(h) ==
            LET p1 == DictPos(d, b1(h).v[r])
                p2 == DictPos(d, b2(h).v[r])
            IN IF ~good(h) \/ p1 = 0 \/ p2 = 0 THEN ZeroAmp
               ELSE AmpMul(AmpMul(b1(h).amp, AmpConj(b2(h).amp)),
                           AmpRat(Eval(S.key_dict, d[p2].e, b1(h))
                                    * Eval(S.key_dict, d[p1].e, b1(h)),
                                  DictNorm(S, d, b1(h))))
    IN RealPart(AmpSum([h \in 1..(n * n) |-> term(h)], n))

\* the checks on prob and the choice of the outcome shared by the three cases
MSOutcome(prob, ps, draw) ==
    IF ps = "None" THEN [err |-> "ok", outcome |-> draw]
    ELSE IF ps = "True" /\ prob[1] = 0 THEN [err |-> "ValueError", outcome |-> TRUE]
    ELSE IF ps = "False" /\ prob[1] = prob[2] THEN [err |-> "ValueError", outcome |-> FALSE]
    ELSE [err |-> "ok", outcome |-> (ps = "True")]

\* the outcomes random() < prob can give
Draws(prob) == {o \in BOOLEAN : IF o THEN prob[1] > 0 ELSE prob[1] < prob[2]}

\* MSFinish with the test of the outcome inverted
MSFinishInverted(S, prob, ps, draw, kept, dropped, pruned) ==
    LET oc == MSOutcome(prob, ps, draw)
        p == IF oc.outcome THEN prob ELSE RatCompl(prob)
        scaled == Rescale(IF oc.outcome THEN dropped ELSE kept, p)
    IN IF oc.err # "ok" THEN Raise(S, oc.err)
       ELSE [S EXCEPT !.branches = IF pruned THEN prune(scaled) ELSE scaled,
                      !.ret = IF ps = "True" THEN RetProb(p) ELSE RetOutcome(oc.outcome)]

\* the new branch list and the return value, given prob and the projected
\* branches for the outcomes True (kept) and False (dropped)
MSFinish(S, prob, ps, draw, kept, dropped, pruned) ==
    LET oc == MSOutcome(prob, ps, draw)
        p == IF oc.outcome THEN prob ELSE RatCompl(prob)
        scaled == Rescale(IF oc.outcome THEN kept ELSE dropped, p)
    IN IF oc.err # "ok" THEN Raise(S, oc.err)
       ELSE [S EXCEPT !.branches = IF pruned THEN prune(scaled) ELSE scaled,
                      !.ret = IF ps = "True" THEN RetProb(p) ELSE RetOutcome(oc.outcome)]

\* the probability measure_state compares the draw with
MSProb(S, key, val) ==
    LET r == Idx(S, key)
    IN CASE val.cat = "expr" ->
              TotalProb(SelectSeq(S.branches,
                          LAMBDA b : b.v[r] = Eval(S.key_dict, val.e, b)))
         [] val.cat = "list" -> ListProb(S, r, val.l)
         [] val.cat = "dict" -> DictProb(S, r, val)

measure_state(S, key, val, ps, draw) ==
    IF Len(S.mode_stack) > 0 THEN Raise(S, "SyntaxError")
    ELSE IF ~Mutable(S, key) THEN Raise(S, "SyntaxError")
    ELSE IF ~HaveRegs(S, {key} \cup ValKeys(val)) THEN Raise(S, "IndexError")
    ELSE LET r == Idx(S, key)
         IN CASE val.cat = "expr" ->
                   IF key \in ValKeys(val) THEN Raise(S, "SyntaxError")
                   ELSE MSFinish(S, MSProb(S, key, val), ps, draw,
                          SelectSeq(S.branches,
                              LAMBDA b : b.v[r] = Eval(S.key_dict, val.e, b)),
                          SelectSeq(S.branches,
                              LAMBDA b : b.v[r] # Eval(S.key_dict, val.e, b)),
                          FALSE)
              [] val.cat = "list" ->
                   IF HasDup(val.l) THEN Raise(S, "ValueError")
                   ELSE MSFinish(S, MSProb(S, key, val), ps, draw,
                          ProjectLoop(S, r, val, TRUE, 1, <<>>),
                          ProjectLoop(S, r, val, FALSE, 1, <<>>), TRUE)
              [] val.cat = "dict" ->
                   IF key \in ValKeys(val) THEN Raise(S, "SyntaxError")
                   ELSE IF \E k \in DictControls(val), i \in 1..Len(S.branches) :
                               k \notin DOMAIN S.branches[i].v
                        THEN Raise(S, "KeyError")
                   ELSE IF \E i \in 1..Len(S.branches) :
                               DictNorm(S, val.d, S.branches[i]) = 0
                        THEN Raise(S, "ValueError")
                   ELSE MSFinish(S, MSProb(S, key, val), ps, draw,
                          ProjectLoop(S, r, val, TRUE, 1, <<>>),
                          ProjectLoop(S, r, val, FALSE, 1, <<>>), TRUE)

-----------------------------------------------------------------------------
(* Dispatch, conditional, while, inversion *)

\* the inverse-dispatch rule of call: foo <-> foo_inv
\* a call(tup, invert=True) that adds "_inv" but leaves a name ending in
\* "_inv" as it is
InverseNameKeepsInv(op) ==
    CASE op = "alloc" -> "alloc_inv"          [] op = "alloc_inv" -> "alloc_inv"
      [] op = "init" -> "init_inv"            [] op = "init_inv" -> "init_inv"
      [] op = "perp_init" -> "perp_init_inv"  [] op = "perp_init_inv" -> "perp_init_inv"
      [] op = "had" -> "had_inv"              [] op = "had_inv" -> "had_inv"
      [] op = "qft" -> "qft_inv"              [] op = "qft_inv" -> "qft_inv"
      [] op = "oper" -> "oper_inv"            [] op = "oper_inv" -> "oper_inv"
      [] op = "phase" -> "phase_inv"          [] op = "phase_inv" -> "phase_inv"
      [] op = "cnot" -> "cnot_inv"            [] op = "cnot_inv" -> "cnot_inv"
      [] op = "do_if" -> "do_if_inv"          [] op = "do_if_inv" -> "do_if_inv"
      [] op = "do_while" -> "do_while_inv"    [] op = "do_while_inv" -> "do_while_inv"
      [] op = "do_garbage" -> "do_garbage_inv"
      [] op = "do_garbage_inv" -> "do_garbage_inv"

InverseName(op) ==
    CASE op = "alloc" -> "alloc_inv"          [] op = "alloc_inv" -> "alloc"
      [] op = "init" -> "init_inv"            [] op = "init_inv" -> "init"
      [] op = "perp_init" -> "perp_init_inv"  [] op = "perp_init_inv" -> "perp_init"
      [] op = "had" -> "had_inv"              [] op = "had_inv" -> "had"
      [] op = "qft" -> "qft_inv"              [] op = "qft_inv" -> "qft"
      [] op = "oper" -> "oper_inv"            [] op = "oper_inv" -> "oper"
      [] op = "phase" -> "phase_inv"          [] op = "phase_inv" -> "phase"
      [] op = "cnot" -> "cnot_inv"            [] op = "cnot_inv" -> "cnot"
      [] op = "do_if" -> "do_if_inv"          [] op = "do_if_inv" -> "do_if"
      [] op = "do_while" -> "do_while_inv"    [] op = "do_while_inv" -> "do_while"
      [] op = "do_garbage" -> "do_garbage_inv"
      [] op = "do_garbage_inv" -> "do_garbage"

\* a replay that forgets to reverse the queue
ReverseForgotten(q) == q

\* queue[::-1]
Reverse(q) == [i \in 1..Len(q) |-> q[Len(q) + 1 - i]]

do_if(S, e) ==
    IF QueueOpen(S) THEN Queued(S, TDoIf(e))
    ELSE [S EXCEPT !.controls = Append(@, e)]

do_if_inv(S, e) ==
    IF QueueOpen(S) THEN Queued(S, TDoIfInv(e))
    ELSE IF Len(S.controls) = 0 THEN Raise(S, "IndexError")
    ELSE [S EXCEPT !.controls = SubSeq(@, 1, Len(@) - 1)]

\* WrapIf.__exit__ as the with statement runs it: also when the body raised,
\* and then the body's exception is the one that propagates
IfExit(S, e) ==
    IF S.err = "ok" THEN do_if_inv(S, e)
    ELSE [do_if_inv([S EXCEPT !.err = "ok"], e) EXCEPT !.err = S.err]

RECURSIVE call(_, _, _)
RECURSIVE Replay(_, _, _, _)
RECURSIVE WhileLoop(_, _, _, _, _)
RECURSIVE WhileInvLoop(_, _, _, _, _)
RECURSIVE do_while(_, _, _, _)
RECURSIVE do_while_inv(_, _, _, _)
RECURSIVE do_garbage(_, _, _, _)
RECURSIVE do_garbage_inv(_, _, _, _)

\* for tup in q[i..]: self.call(tup, invert), stopping at the first exception
Replay(S, q, i, invert) ==
    IF i > Len(q) \/ S.err # "ok" THEN S
    ELSE Replay(call(S, q[i], invert), q, i + 1, invert)

\* with self.q_if(e): <body>, S1 the state after __enter__ and R the state
\* the body leaves
WithIf(S1, R, e) == IF S1.err # "ok" THEN S1 ELSE IfExit(R, e)

\* with q_if(e): key += 1, the first block of a round of do_while
WhileCount(S, e, key) ==
    WithIf(do_if(S, e), oper(do_if(S, e), key, Const(1), "add", "sub"), e)

\* with q_if(key > count): <queue>, the second block of the round, S1 the
\* state the first block left
WhileBody(S1, queue, key, count) ==
    IF S1.err # "ok" THEN S1
    ELSE WithIf(do_if(S1, KeyGt(key, count)),
                Replay(do_if(S1, KeyGt(key, count)), queue, 1, FALSE),
                KeyGt(key, count))

\* the loop of do_while leaving as soon as any branch is done
WhileLoopAnyDone(S, queue, e, key, count) ==
    IF ~HaveRegs(S, {key} \cup ExprKeys(e)) THEN Raise(S, "IndexError")
    ELSE IF \E i \in 1..Len(S.branches) :
          Good(S, S.branches[i]) /\ Eval(S.key_dict, e, S.branches[i]) = 0
    THEN S
    ELSE IF count >= MaxIter THEN Raise(S, "Diverged")
    ELSE LET S1 == WithIf(do_if(S, e),
                          oper(do_if(S, e), key, Const(1), "add", "sub"), e)
             S2 == WithIf(do_if(S1, KeyGt(key, count)),
                          Replay(do_if(S1, KeyGt(key, count)), queue, 1, FALSE),
                          KeyGt(key, count))
         IN IF S1.err # "ok" THEN S1
            ELSE IF S2.err # "ok" THEN S2
            ELSE WhileLoop(S2, queue, e, key, count + 1)

\* the `while True` loop of do_while, count its counter
WhileLoop(S, queue, e, key, count) ==
    IF S.err # "ok" THEN S
    ELSE IF ~HaveRegs(S, {key} \cup ExprKeys(e)) THEN Raise(S, "IndexError")
    ELSE IF \A i \in 1..Len(S.branches) :
          Good(S, S.branches[i]) => Eval(S.key_dict, e, S.branches[i]) = 0
    THEN S
    ELSE IF count >= MaxIter THEN Raise(S, "Diverged")
    ELSE WhileLoop(WhileBody(WhileCount(S, e, key), queue, key, count),
                   queue, e, key, count + 1)

\* a do_while that runs the first round only
do_whileOneRound(S, queue, e, key) ==
    IF QueueOpen(S) THEN Queued(S, TDoWhile(queue, e, key))
    ELSE IF ~Mutable(S, key) THEN Raise(S, "SyntaxError")
    ELSE IF ~HaveRegs(S, {key} \cup ExprKeys(e)) THEN Raise(S, "IndexError")
    ELSE IF \E i \in 1..Len(S.branches) :
                Good(S, S.branches[i]) /\ S.branches[i].v[Idx(S, key)] # 0
         THEN Raise(S, "ValueError")
    ELSE IF key \in ExprKeys(e) THEN Raise(S, "SyntaxError")
    ELSE IF \A i \in 1..Len(S.branches) :
                Good(S, S.branches[i]) => Eval(S.key_dict, e, S.branches[i]) = 0
         THEN S
    ELSE WhileBody(WhileCount(S, e, key), queue, key, 0)

do_while(S, queue, e, key) ==
    IF QueueOpen(S) THEN Queued(S, TDoWhile(queue, e, key))
    ELSE IF ~Mutable(S, key) THEN Raise(S, "SyntaxError")
    ELSE IF ~HaveRegs(S, {key} \cup ExprKeys(e)) THEN Raise(S, "IndexError")
    ELSE IF \E i \in 1..Len(S.branches) :
                Good(S, S.branches[i]) /\ S.branches[i].v[Idx(S, key)] # 0
         THEN Raise(S, "ValueError")
    ELSE IF key \in ExprKeys(e) THEN Raise(S, "SyntaxError")
    ELSE WhileLoop(S, queue, e, key, 0)

\* with q_if(key > count - 1): <queue inverted>, the first block of a round
\* of do_while_inv
WhileInvBody(S, queue, key, count) ==
    WithIf(do_if(S, KeyGt(key, count - 1)),
           Replay(do_if(S, KeyGt(key, count - 1)), Reverse(queue), 1, TRUE),
           KeyGt(key, count - 1))

\* with q_if(e): key -= 1, the second block of the round, S1 the state the
\* first block left
WhileInvCount(S1, e, key) ==
    IF S1.err # "ok" THEN S1
    ELSE WithIf(do_if(S1, e), oper(do_if(S1, e), key, Const(1), "sub", "add"), e)

\* the loop of do_while_inv with its two blocks in the order of do_while
WhileInvLoopForwardOrder(S, queue, e, key, count) ==
    IF count = 0 THEN S
    ELSE IF count < 0 THEN Raise(S, "Diverged")
    ELSE IF ~HaveRegs(S, {key} \cup ExprKeys(e)) THEN Raise(S, "IndexError")
    ELSE LET S1 == WithIf(do_if(S, e),
                          oper(do_if(S, e), key, Const(1), "sub", "add"), e)
             S2 == WithIf(do_if(S1, KeyGt(key, count - 1)),
                          Replay(do_if(S1, KeyGt(key, count - 1)), Reverse(queue), 1, TRUE),
                          KeyGt(key, count - 1))
         IN IF S1.err # "ok" THEN S1
            ELSE IF S2.err # "ok" THEN S2
            ELSE WhileInvLoop(S2, queue, e, key, count - 1)

\* the `while True` loop of do_while_inv, count its counter
WhileInvLoop(S, queue, e, key, count) ==
    IF S.err # "ok" THEN S
    ELSE IF count = 0 THEN S
    ELSE IF count < 0 THEN Raise(S, "Diverged")
    ELSE IF ~HaveRegs(S, {key} \cup ExprKeys(e)) THEN Raise(S, "IndexError")
    ELSE WhileInvLoop(WhileInvCount(WhileInvBody(S, queue, key, count), e, key),
                      queue, e, key, count - 1)

do_while_inv(S, queue, e, key) ==
    IF QueueOpen(S) THEN Queued(S, TDoWhileInv(queue, e, key))
    ELSE IF ~Mutable(S, key) THEN Raise(S, "SyntaxError")
    ELSE IF key \in ExprKeys(e) THEN Raise(S, "SyntaxError")
    ELSE IF ~HaveRegs(S, {key} \cup ExprKeys(e)) THEN Raise(S, "IndexError")
    ELSE LET act == SelectSeq(S.branches, LAMBDA b : Good(S, b))
             r == Idx(S, key)
             top == CHOOSE i \in 1..Len(act) : \A j \in 1..Len(act) : act[j].v[r] <= act[i].v[r]
         IN IF Len(act) = 0 THEN Raise(S, "ValueError")
            ELSE WhileInvLoop(S, queue, e, key, act[top].v[r])

\* the end of do_garbage, S1 the state the replay of the queue left
PileCheck(S1, pile, gkey) ==
    IF S1.err # "ok" THEN S1
    ELSE IF gkey = "keyless" /\ Len(S1.piles[pile]) > 0
    THEN Raise(S1, "SyntaxError")
    ELSE [S1 EXCEPT !.pile_stack = SubSeq(@, 1, Len(@) - 1)]

\* do_garbage checking the keyless pile before the queue is replayed
do_garbageCheckFirst(S, queue, pile, gkey) ==
    IF QueueOpen(S) THEN Queued(S, TDoGarbage(queue, pile, gkey))
    ELSE IF gkey = "keyless" /\ Len(S.piles[pile]) > 0 THEN Raise(S, "SyntaxError")
    ELSE LET S1 == Replay([S EXCEPT !.pile_stack = Append(@, pile)], queue, 1, FALSE)
         IN IF S1.err # "ok" THEN S1
            ELSE [S1 EXCEPT !.pile_stack = SubSeq(@, 1, Len(@) - 1)]

\* the pile is pushed, the queue replayed, a keyless pile checked, the pile
\* popped; an exception leaves the pile on pile_stack
do_garbage(S, queue, pile, gkey) ==
    IF QueueOpen(S) THEN Queued(S, TDoGarbage(queue, pile, gkey))
    ELSE PileCheck(Replay([S EXCEPT !.pile_stack = Append(@, pile)], queue, 1, FALSE),
                   pile, gkey)

\* the end of do_garbage_inv, S1 the state the recording left: rev_queue is
\* popped and run by do_garbage
RunReversed(S1, pile, gkey) ==
    IF S1.err # "ok" THEN S1
    ELSE do_garbage([S1 EXCEPT !.queue_stack = SubSeq(@, 1, Len(@) - 1)],
                    S1.queue_stack[Len(S1.queue_stack)], pile, gkey)

\* the inverted calls are recorded in a fresh queue, in reverse order, and
\* that queue is run by do_garbage
do_garbage_inv(S, queue, pile, gkey) ==
    IF QueueOpen(S) THEN Queued(S, TDoGarbageInv(queue, pile, gkey))
    ELSE RunReversed(Replay([S EXCEPT !.queue_stack = Append(@, <<>>)],
                            Reverse(queue), 1, TRUE),
                     pile, gkey)

\* Qumquat.call: dispatch the tuple, or its inverse by name
call(S, tup, invert) ==
    LET name == IF invert THEN InverseName(tup.op) ELSE tup.op
        T == [S EXCEPT !.log = Append(@, [tup EXCEPT !.op = name])]
    IN CASE name = "alloc" -> alloc(T, tup.key)
         [] name = "alloc_inv" -> alloc_inv(T, tup.key)
         [] name = "init" -> init(T, tup.key, tup.val)
         [] name = "init_inv" -> init_inv(T, tup.key, tup.val)
         [] name = "perp_init" -> perp_init(T, tup.key, tup.orth, tup.val)
         [] name = "perp_init_inv" -> perp_init_inv(T, tup.key, tup.orth, tup.val)
         [] name = "had" -> had(T, tup.key, tup.e)
         [] name = "had_inv" -> had_inv(T, tup.key, tup.e)
         [] name = "qft" -> qft(T, tup.key, tup.e, tup.i = 1)
         [] name = "qft_inv" -> qft_inv(T, tup.key, tup.e, tup.i = 1)
         [] name = "oper" -> oper(T, tup.key, tup.e, tup.do, tup.undo)
         [] name = "oper_inv" -> oper_inv(T, tup.key, tup.e, tup.do, tup.undo)
         [] name = "phase" -> phase(T, tup.e, tup.i)
         [] name = "phase_inv" -> phase_inv(T, tup.e, tup.i)
         [] name = "cnot" -> cnot(T, tup.key, tup.e, tup.e2)
         [] name = "cnot_inv" -> cnot_inv(T, tup.key, tup.e, tup.e2)
         [] name = "do_if" -> do_if(T, tup.e)
         [] name = "do_if_inv" -> do_if_inv(T, tup.e)
         [] name = "do_while" -> do_while(T, tup.queue, tup.e, tup.key)
         [] name = "do_while_inv" -> do_while_inv(T, tup.queue, tup.e, tup.key)
         [] name = "do_garbage" -> do_garbage(T, tup.queue, tup.pile, tup.gkey)
         [] name = "do_garbage_inv" -> do_garbage_inv(T, tup.queue, tup.pile, tup.gkey)

push_mode(S, mode) == [S EXCEPT !.mode_stack = Append(@, mode)]

\* a pop_mode that checks the top entry and leaves it on the stack
pop_modeKeep(S, mode) ==
    IF Len(S.mode_stack) = 0 THEN Raise(S, "SyntaxError")
    ELSE IF S.mode_stack[Len(S.mode_stack)] # mode THEN Raise(S, "SyntaxError")
    ELSE S

pop_mode(S, mode) ==
    IF Len(S.mode_stack) = 0 THEN Raise(S, "SyntaxError")
    ELSE IF S.mode_stack[Len(S.mode_stack)] # mode THEN Raise(S, "SyntaxError")
    ELSE [S EXCEPT !.mode_stack = SubSeq(@, 1, Len(@) - 1)]

PopQueue(S) == [S EXCEPT !.queue_stack = SubSeq(@, 1, Len(@) - 1)]
TopQueue(S) == S.queue_stack[Len(S.queue_stack)]

\* WrapInv.__enter__ and __exit__
InvEnter(S) == [push_mode(S, "inv") EXCEPT !.queue_stack = Append(@, <<>>)]

InvExit(S) ==
    LET S1 == pop_mode(S, "inv")
    IN IF S1.err # "ok" THEN S1
       ELSE Replay(PopQueue(S1), Reverse(TopQueue(S1)), 1, TRUE)

\* WrapWhile.__enter__ and __exit__
WhileEnter(S) == [S EXCEPT !.queue_stack = Append(@, <<>>)]

WhileExit(S, e, key) == do_while(PopQueue(S), TopQueue(S), e, key)

\* WrapGarbage.enter: a keyless scope gets a new pile, a named scope the
\* pile of its name, made at its first use
GarbageEnter(S, gkey) ==
    LET new == Len(S.piles) + 1
        S1 == [S EXCEPT !.garbage_stack = Append(@, gkey)]
        S2 == IF gkey = "keyless"
              THEN [S1 EXCEPT !.garbage_piles.keyless = Append(@, new),
                              !.piles = Append(@, <<>>)]
              ELSE IF S1.garbage_piles.named[gkey] = 0
              THEN [S1 EXCEPT !.garbage_piles.named[gkey] = new,
                              !.piles = Append(@, <<>>)]
              ELSE S1
    IN [S2 EXCEPT !.queue_stack = Append(@, <<>>)]

\* WrapGarbage.exit
GarbageExit(S, gkey) ==
    LET queue == TopQueue(S)
        kl == S.garbage_piles.keyless
        pile == IF gkey = "keyless" THEN kl[Len(kl)] ELSE S.garbage_piles.named[gkey]
        S1 == PopQueue(S)
        S2 == IF gkey = "keyless"
              THEN [S1 EXCEPT !.garbage_piles.keyless = SubSeq(@, 1, Len(@) - 1)]
              ELSE S1
        S3 == [S2 EXCEPT !.garbage_stack = SubSeq(@, 1, Len(@) - 1)]
    IN do_garbage(S3, queue, pile, gkey)

-----------------------------------------------------------------------------
(* The calling program: one action per call of the public surface *)

TNone == Tup("", 0, 0, NoVal, Const(0), Const(0), 0, "", "", <<>>)
TGarbage(gkey) == [TNone EXCEPT !.gkey = gkey]

\* the state an operation starts from: no exception pending, nothing logged
Start == [State EXCEPT !.log = <<>>, !.ret = NoRet]

LastTwo(h) == IF Len(h) > 2 THEN SubSeq(h, Len(h) - 1, Len(h)) ELSE h

\* an open with-block of the program
Scope(kind, e, key) == [kind |-> kind, e |-> e, key |-> key, gkey |-> ""]
GarbageScope(gkey) == [Scope("garbage", Const(0), 0) EXCEPT !.gkey = gkey]
TopScope == scopes[Len(scopes)]

\* the program calls `name` with the arguments `tup` (and `exprs`), the
\* simulator goes to T and the program's open with-blocks become sc; an
\* exception ends the program
StepTo(name, tup, exprs, T, sc, n) ==
    /\ err = "ok"
    /\ ~HasBad(T.branches)
    /\ ~HasNeg(T.branches)
    /\ T.err # "Diverged"
    /\ branches' = Plain(T.branches)
    /\ cells' = Cells(T.branches)
    /\ controls' = T.controls
    /\ key_dict' = T.key_dict
    /\ key_count' = T.key_count
    /\ reg_count' = T.reg_count
    /\ queue_stack' = T.queue_stack
    /\ mode_stack' = T.mode_stack
    /\ garbage_stack' = T.garbage_stack
    /\ garbage_piles' = T.garbage_piles
    /\ pile_stack' = T.pile_stack
    /\ piles' = T.piles
    /\ err' = T.err
    /\ ret' = T.ret
    /\ log' = T.log
    /\ scopes' = sc
    /\ hist' = LastTwo(Append(hist, [name |-> name, tup |-> tup, exprs |-> exprs,
                                     pre |-> [Start EXCEPT !.branches = branches],
                                     cells |-> cells]))
    /\ steps' = n

Step(name, tup, exprs, T, sc) ==
    steps < MaxSteps /\ StepTo(name, tup, exprs, T, sc, steps + 1)

QueueRoom ==
    IF queue_stack = <<>> THEN TRUE
    ELSE Len(queue_stack[Len(queue_stack)]) < MaxQueue

\* the registers of the program are declared first: x = qq.reg(val)
CallReg(val) ==
    /\ key_count < MaxKeys
    /\ steps = 0
    /\ scopes = <<>>
    /\ StepTo("reg", TInit(key_count + 1, val), <<>>, reg(Start, val), scopes, 0)

\* x = qq.reg(val) inside a with-block
CallRegIn(val) ==
    /\ key_count < MaxKeys
    /\ scopes # <<>>
    /\ Step("reg", TInit(key_count + 1, val), <<>>, reg(Start, val), scopes)

\* qq.clean(key, val)
CallClean(key, val) ==
    Step("clean", TInitInv(key, val), <<>>, clean(Start, key, val), scopes)

CallAlloc(key) ==
    QueueRoom /\ Step("alloc", TAlloc(key), <<>>, alloc(Start, key), scopes)

CallAllocInv(key) ==
    QueueRoom /\ Step("alloc_inv", TAllocInv(key), <<>>, alloc_inv(Start, key), scopes)

CallInit(key, val) ==
    QueueRoom /\ Step("init", TInit(key, val), <<>>, init(Start, key, val), scopes)

CallInitInv(key, val) ==
    QueueRoom /\ Step("init_inv", TInitInv(key, val), <<>>, init_inv(Start, key, val), scopes)

CallPerpInit(key, orth, val) ==
    QueueRoom /\ Step("perp_init", TPerpInit(key, orth, val), <<>>,
                      perp_init(Start, key, orth, val), scopes)

CallPerpInitInv(key, orth, val) ==
    QueueRoom /\ Step("perp_init_inv", TPerpInitInv(key, orth, val), <<>>,
                      perp_init_inv(Start, key, orth, val), scopes)

CallHad(key, bit) ==
    QueueRoom /\ Step("had", THad(key, bit), <<>>, had(Start, key, bit), scopes)

CallQft(key, d, inverse) ==
    QueueRoom /\ Step("qft", TQft(key, d, IF inverse THEN 1 ELSE 0), <<>>,
                      qft(Start, key, d, inverse), scopes)

CallOper(key, e, do, undo) ==
    QueueRoom /\ Step("oper", TOper(key, e, do, undo), <<>>,
                      oper(Start, key, e, do, undo), scopes)

CallPhase(theta, mult) ==
    QueueRoom /\ Step("phase", TPhase(theta, mult), <<>>, phase(Start, theta, mult), scopes)

CallCnot(key, idx1, idx2) ==
    QueueRoom /\ Step("cnot", TCnot(key, idx1, idx2), <<>>,
                      cnot(Start, key, idx1, idx2), scopes)

CallMeasure(exprs) ==
    \E pick \in IF mode_stack = <<>> /\ HaveRegs(Start, SeqKeys(exprs))
                 THEN Outcomes(Start, exprs) ELSE {<<>>} :
        Step("measure", TNone, exprs, measure(Start, exprs, pick), scopes)

CallPostselect(e) ==
    Step("postselect", TNone, <<e>>, postselect(Start, e), scopes)

CallMeasureState(key, val, ps) ==
    \E draw \in IF ps = "None" /\ mode_stack = <<>> /\ Mutable(Start, key)
                   /\ key \notin ValKeys(val)
                   /\ HaveRegs(Start, {key} \cup ValKeys(val))
                THEN Draws(MSProb(Start, key, val)) ELSE {TRUE} :
        Step("measure_state", [TInit(key, val) EXCEPT !.op = "measure_state", !.do = ps],
             <<>>, measure_state(Start, key, val, ps, draw), scopes)

\* with qq.inv():
EnterInv ==
    StepTo("inv", TNone, <<>>, InvEnter(Start),
           Append(scopes, Scope("inv", Const(0), 0)), steps)

\* with qq.q_if(e):
EnterIf(e) ==
    QueueRoom /\ Step("q_if", TDoIf(e), <<>>, do_if(Start, e), Append(scopes, Scope("if", e, 0)))

\* with qq.q_while(e, key):
EnterWhile(e, key) ==
    StepTo("q_while", TDoWhile(<<>>, e, key), <<>>, WhileEnter(Start),
           Append(scopes, Scope("while", e, key)), steps)

\* with qq.garbage(): or with qq.garbage(gkey):
EnterGarbage(gkey) ==
    /\ Len(piles) < MaxPiles
    /\ StepTo("garbage", TGarbage(gkey), <<>>, GarbageEnter(Start, gkey),
              Append(scopes, GarbageScope(gkey)), steps)

\* qq.do_while_inv(queue, e, key) for the loop the program has just run:
\* the call an inversion block around the same loop dispatches
CallDoWhileInv ==
    /\ hist # <<>>
    /\ hist[Len(hist)].name = "q_while_exit"
    /\ scopes = <<>>
    /\ LET t == hist[Len(hist)].tup
       IN StepTo("do_while_inv", TDoWhileInv(t.queue, t.e, t.key), <<>>,
                 do_while_inv(Start, t.queue, t.e, t.key), scopes, steps)

\* the end of the innermost with-block
ExitScope ==
    /\ scopes # <<>>
    /\ LET sc == TopScope
           rest == SubSeq(scopes, 1, Len(scopes) - 1)
       IN CASE sc.kind = "inv" ->
                 StepTo("inv_exit", TNone, <<>>, InvExit(Start), rest, steps)
            [] sc.kind = "if" ->
                 StepTo("q_if_exit", TDoIfInv(sc.e), <<>>,
                        do_if_inv(Start, sc.e), rest, steps)
            [] sc.kind = "while" ->
                 StepTo("q_while_exit", TDoWhile(TopQueue(Start), sc.e, sc.key), <<>>,
                        WhileExit(Start, sc.e, sc.key), rest, steps)
            [] sc.kind = "garbage" ->
                 StepTo("garbage_exit", TGarbage(sc.gkey), <<>>,
                        GarbageExit(Start, sc.gkey), rest, steps)

-----------------------------------------------------------------------------
Init ==
    /\ branches = Plain(Fresh.branches)
    /\ cells = Cells(Fresh.branches)
    /\ controls = <<>>
    /\ key_dict = <<>>
    /\ key_count = 0
    /\ reg_count = 0
    /\ queue_stack = <<>>
    /\ mode_stack = <<>>
    /\ garbage_stack = <<>>
    /\ garbage_piles = Fresh.garbage_piles
    /\ pile_stack = <<>>
    /\ piles = <<>>
    /\ scopes = <<>>
    /\ err = "ok"
    /\ ret = NoRet
    /\ log = <<>>
    /\ hist = <<>>
    /\ steps = 0

\* the arguments the program draws its calls from
AllKeys == 1..key_count
RegVals == {ValExpr(Const(0)), ValExpr(Const(1)), ValList(<<0, 1>>)}
Vals == {ValExpr(Const(1)), ValList(<<0, 1>>),
         ValDict(<<[k |-> 0, e |-> Const(1)], [k |-> 1, e |-> Const(2)]>>)}
Bits == {Const(0)}
LiveKeys == {k \in AllKeys : Allocated(key_dict, k)}
CtrlExprs == {KeyEq(k, 1) : k \in LiveKeys}
PostExprs == {KeyEq(k, 1) : k \in AllKeys}
MeasureExprs == {<<KeyRead(k)>> : k \in AllKeys}

Primitive ==
    \/ \E key \in AllKeys : CallAlloc(key)
    \/ \E key \in AllKeys : CallAllocInv(key)
    \/ \E key \in AllKeys, val \in Vals : CallInit(key, val)
    \/ \E key \in AllKeys, val \in Vals : CallInitInv(key, val)
    \/ \E key, orth \in AllKeys, val \in Vals : key # orth /\ CallPerpInit(key, orth, val)
    \/ \E key, orth \in AllKeys, val \in Vals : key # orth /\ CallPerpInitInv(key, orth, val)
    \/ \E key \in AllKeys, bit \in Bits : CallHad(key, bit)
    \/ \E key \in AllKeys, inverse \in BOOLEAN : CallQft(key, Const(2), inverse)
    \/ \E key \in AllKeys, do \in {"add", "sub"} :
          CallOper(key, Const(1), do, IF do = "add" THEN "sub" ELSE "add")
    \/ \E key \in AllKeys, mult \in {1, 2} : CallPhase(KeyRead(key), mult)
    \/ \E key \in AllKeys : CallCnot(key, Const(0), Const(1))

Measurement ==
    \/ \E exprs \in MeasureExprs : CallMeasure(exprs)
    \/ \E e \in PostExprs : CallPostselect(e)

Next ==
    \/ \E val \in RegVals : CallReg(val)
    \/ Primitive
    \/ Measurement
    \/ \E e \in CtrlExprs : scopes = <<>> /\ EnterIf(e)
    \/ ExitScope

Spec == Init /\ [][Next]_vars

-----------------------------------------------------------------------------
(* Programs with inversion blocks: with qq.inv(): <calls>, the blocks      *)
(* nested at most MaxDepth deep, q_if blocks inside them                   *)

InvVals == {ValExpr(Const(1)), ValList(<<0, 1>>)}

InvPrimitive ==
    \/ \E key \in AllKeys : CallAlloc(key)
    \/ \E key \in AllKeys : CallAllocInv(key)
    \/ \E key \in AllKeys, val \in InvVals : CallInit(key, val)
    \/ \E key \in AllKeys, val \in InvVals : CallInitInv(key, val)
    \/ \E key, orth \in AllKeys : key < orth /\ CallPerpInit(key, orth, ValExpr(Const(1)))
    \/ \E key, orth \in AllKeys : key < orth /\ CallPerpInitInv(key, orth, ValExpr(Const(1)))
    \/ \E key \in AllKeys : CallHad(key, Const(0))
    \/ \E key \in AllKeys : CallQft(key, Const(2), FALSE)
    \/ \E key \in AllKeys : CallOper(key, Const(1), "add", "sub")
    \/ \E key \in AllKeys : CallPhase(KeyRead(key), 1)
    \/ \E key \in AllKeys : CallCnot(key, Const(0), Const(1))

NextInv ==
    \/ \E val \in RegVals : key_count < 2 /\ CallReg(val)
    \/ Len(scopes) < MaxDepth /\ EnterInv
    \/ InvPrimitive
    \/ \E exprs \in MeasureExprs : CallMeasure(exprs)
    \/ \E e \in PostExprs : CallPostselect(e)
    \/ \E e \in CtrlExprs : Len(scopes) < MaxDepth /\ EnterIf(e)
    \/ ExitScope

SpecInv == Init /\ [][NextInv]_vars

-----------------------------------------------------------------------------
(* Programs with one quantum while loop: the registers, then               *)
(* with qq.q_while(n > 0, k): <n -= 1 or n += 1, k's too>                  *)

RECURSIVE Lists(_)
\* the lists of at most n distinct values of 0..MaxVal
Lists(n) ==
    IF n = 0 THEN {<<>>}
    ELSE Lists(n - 1) \cup
         {Append(l, x) : l \in {m \in Lists(n - 1) : Len(m) = n - 1}, x \in 0..MaxVal}

WhileRegVals ==
    {ValExpr(Const(0))} \cup
    {ValList(l) : l \in {m \in Lists(MaxLen) : m # <<>> /\ ~HasDup(m)}}

NextWhile ==
    \/ \E val \in WhileRegVals : key_count < 2 /\ CallReg(val)
    \/ \E n, k \in AllKeys : scopes = <<>> /\ steps = 0 /\ EnterWhile(KeyGt(n, 0), k)
    \/ \E key \in AllKeys, do \in {"add", "sub"} :
          scopes # <<>> /\ CallOper(key, Const(1), do, IF do = "add" THEN "sub" ELSE "add")
    \/ ExitScope
    \/ CallDoWhileInv

SpecWhile == Init /\ [][NextWhile]_vars

-----------------------------------------------------------------------------
(* Programs with garbage scopes, nested with each other and with inv, q_if *)
(* and q_while blocks: the registers, then the blocks, opened before the   *)
(* first call, and in them reg, clean, alloc_inv, n -= 1, measure and      *)
(* postselect                                                              *)

GarbageKeys == {"keyless"} \cup PileNames
ScopeVals == {ValExpr(Const(1)), ValList(<<0, 1>>)}

NextScopes ==
    \/ \E val \in RegVals : key_count < 2 /\ CallReg(val)
    \/ \E gkey \in GarbageKeys :
          steps = 0 /\ Len(scopes) < MaxDepth /\ QueueRoom /\ EnterGarbage(gkey)
    \/ steps = 0 /\ Len(scopes) < MaxDepth /\ QueueRoom /\ EnterInv
    \/ \E n, k \in LiveKeys :
          steps = 0 /\ n # k /\ scopes = <<>> /\ EnterWhile(KeyGt(n, 0), k)
    \/ \E e \in CtrlExprs : Len(scopes) < MaxDepth /\ EnterIf(e)
    \/ \E val \in ScopeVals : CallRegIn(val)
    \/ \E key \in AllKeys, val \in ScopeVals : scopes # <<>> /\ CallClean(key, val)
    \/ \E key \in AllKeys : scopes # <<>> /\ CallAllocInv(key)
    \/ \E key \in AllKeys : scopes # <<>> /\ CallOper(key, Const(1), "sub", "add")
    \/ \E exprs \in MeasureExprs : scopes # <<>> /\ CallMeasure(exprs)
    \/ \E e \in PostExprs : scopes # <<>> /\ CallPostselect(e)
    \/ ExitScope

SpecScopes == Init /\ [][NextScopes]_vars

-----------------------------------------------------------------------------
(* Programs that measure a state: the registers, the second one possibly   *)
(* a copy of the first, Hadamards, and measure_state calls                 *)

MSRegVals ==
    RegVals \cup {ValExpr(KeyRead(k)) : k \in LiveKeys}
            \cup {ValDict(<<[k |-> 0, e |-> Const(1)], [k |-> 1, e |-> Const(-1)]>>)}
MSVals ==
    {ValExpr(Const(0)), ValExpr(Const(1)), ValList(<<0, 1>>),
     ValDict(<<[k |-> 0, e |-> Const(1)], [k |-> 1, e |-> Const(2)]>>)}
    \cup {ValExpr(KeyRead(k)) : k \in LiveKeys}
Postselects == {"None", "True", "False"}

NextMeasure ==
    \/ \E val \in MSRegVals : key_count < 2 /\ CallReg(val)
    \/ \E key \in AllKeys : CallHad(key, Const(0))
    \/ \E key \in AllKeys, val \in MSVals, ps \in Postselects :
          CallMeasureState(key, val, ps)

SpecMeasure == Init /\ [][NextMeasure]_vars

-----------------------------------------------------------------------------
(* Programs that call primitives, conditionals and measurements in the     *)
(* body of an inv, q_while or garbage block                                *)

NextDefer ==
    \/ \E val \in RegVals : key_count < 2 /\ CallReg(val)
    \/ \E gkey \in GarbageKeys :
          steps = 0 /\ scopes = <<>> /\ EnterGarbage(gkey)
    \/ steps = 0 /\ scopes = <<>> /\ EnterInv
    \/ \E n, k \in LiveKeys :
          steps = 0 /\ n # k /\ scopes = <<>> /\ EnterWhile(KeyGt(n, 0), k)
    \/ \E e \in CtrlExprs : queue_stack # <<>> /\ Len(scopes) < MaxDepth /\ EnterIf(e)
    \/ queue_stack # <<>> /\ InvPrimitive
    \/ \E exprs \in MeasureExprs : queue_stack # <<>> /\ CallMeasure(exprs)
    \/ \E e \in PostExprs : queue_stack # <<>> /\ CallPostselect(e)
    \/ ExitScope

SpecDefer == Init /\ [][NextDefer]_vars

-----------------------------------------------------------------------------
(* Programs that allocate, deallocate and clear: registers, then alloc and *)
(* alloc_inv on their keys, at top level or in one inversion block, and    *)
(* clear at any point, with new registers declared after it                *)

\* qq.clear()
CallClear == StepTo("clear", TNone, <<>>, clear(Start), scopes, steps)

\* x = qq.reg(val) once a clear has emptied the key registry
CallRegAfterClear(val) ==
    /\ key_count < MaxKeys
    /\ DOMAIN key_dict # 1..key_count
    /\ StepTo("reg", TInit(key_count + 1, val), <<>>, reg(Start, val), scopes, steps)

NextAlloc ==
    \/ \E val \in RegVals : CallReg(val)
    \/ \E val \in RegVals : CallRegAfterClear(val)
    \/ \E key \in AllKeys : CallAlloc(key)
    \/ \E key \in AllKeys : CallAllocInv(key)
    \/ CallClear
    \/ scopes = <<>> /\ EnterInv
    \/ ExitScope

SpecAlloc == Init /\ [][NextAlloc]_vars

-----------------------------------------------------------------------------
(* Programs whose val reads the register the call works on: the registers,  *)
(* then init, init_inv, perp_init, perp_init_inv and measure_state calls   *)

\* an Expression and a dictionary that read key
SelfVals(key) ==
    {ValExpr(KeyRead(key)),
     ValDict(<<[k |-> 0, e |-> KeyRead(key)], [k |-> 1, e |-> Const(1)]>>)}

NextSelf ==
    \/ \E val \in RegVals : key_count < 2 /\ CallReg(val)
    \/ \E key \in AllKeys : \E val \in SelfVals(key) : CallInit(key, val)
    \/ \E key \in AllKeys : \E val \in SelfVals(key) : CallInitInv(key, val)
    \/ \E key, orth \in AllKeys : \E val \in SelfVals(key) \cup SelfVals(orth) :
          key # orth /\ CallPerpInit(key, orth, val)
    \/ \E key, orth \in AllKeys : \E val \in SelfVals(key) \cup SelfVals(orth) :
          key # orth /\ CallPerpInitInv(key, orth, val)
    \/ \E key \in AllKeys : \E val \in SelfVals(key) : CallMeasureState(key, val, "None")

SpecSelf == Init /\ [][NextSelf]_vars

-----------------------------------------------------------------------------
(* Programs of controlled NOTs: the registers, a q_if on one of them, and   *)
(* cnot calls with constant and register-valued bit indices                *)

CnotRegVals == {ValExpr(Const(1)), ValExpr(Const(2)), ValList(<<0, 1>>)}
CnotIdx == {Const(0), Const(1)} \cup {KeyRead(k) : k \in AllKeys}

\* qq.cnot(key, idx1, idx2), once more than the other programs allow, on
\* bits 0..MaxVal
CallCnotAgain(key, idx1, idx2) ==
    /\ steps < MaxSteps + 1
    /\ \A i \in 1..Len(branches) :
          /\ Eval(key_dict, idx1, branches[i]) <= MaxVal
          /\ Eval(key_dict, idx2, branches[i]) <= MaxVal
    /\ StepTo("cnot", TCnot(key, idx1, idx2), <<>>, cnot(Start, key, idx1, idx2),
              scopes, steps + 1)

NextCnot ==
    \/ \E val \in CnotRegVals : key_count < 2 /\ CallReg(val)
    \/ \E e \in CtrlExprs : scopes = <<>> /\ EnterIf(e)
    \/ \E key \in AllKeys, idx1, idx2 \in CnotIdx : CallCnotAgain(key, idx1, idx2)
    \/ ExitScope

SpecCnot == Init /\ [][NextCnot]_vars

-----------------------------------------------------------------------------
(* Properties.  hist holds the last two calls with the state each started  *)
(* from; the current state is the state the last call left.               *)

Last == hist[Len(hist)]
Prev == hist[Len(hist) - 1]

\* the call h was executed at once (no queue was open) by a primitive
Executed(h) == h.pre.queue_stack = <<>>

\* the last two calls are `first` then `second`, same arguments, both executed
Pair(first, second) ==
    /\ Len(hist) = 2
    /\ Prev.name = first /\ Last.name = second
    /\ Last.tup.key = Prev.tup.key /\ Last.tup.orth = Prev.tup.orth
    /\ Last.tup.val = Prev.tup.val /\ Last.tup.e = Prev.tup.e
    /\ Executed(Prev) /\ Executed(Last)

BranchSet(bs) == {bs[i] : i \in 1..Len(bs)}
ValueSet(bs) == {bs[i].v : i \in 1..Len(bs)}

\* the same branches, amplitudes included, up to reordering
SameBranches(bs1, bs2) == Len(bs1) = Len(bs2) /\ BranchSet(bs1) = BranchSet(bs2)

\* the global invariants of a state: distinct non-zero branches of norm 1
Distinct(bs) == \A i, j \in 1..Len(bs) : i # j => bs[i].v # bs[j].v
Normalized(bs) == TotalProb(bs) = <<1, 1>>
Valid(S) ==
    /\ Distinct(S.branches) /\ Normalized(S.branches)
    /\ \A i \in 1..Len(S.branches) : S.branches[i].amp # ZeroAmp

\* key holds a register that is 0 on every active branch of S
ZeroOnActive(S, key) ==
    /\ Allocated(S.key_dict, key)
    /\ \A i \in 1..Len(S.branches) :
          Good(S, S.branches[i]) => S.branches[i].v[Idx(S, key)] = 0

Frozen(S) == {b \in BranchSet(S.branches) : ~Good(S, b)}

\* C1: init(key, val) followed by init_inv(key, val), from a state where key
\* is 0 on every active branch, succeeds and gives back the branches it
\* started from (values and amplitudes, up to order)
C1_InitRoundTrip ==
    (Pair("init", "init_inv") /\ ZeroOnActive(Prev.pre, Prev.tup.key))
        => (err = "ok" /\ SameBranches(branches, Prev.pre.branches))

\* C2: perp_init(key, orth, val) followed by perp_init_inv(key, orth, val),
\* from a state where orth is 0 on every active branch, succeeds, leaves orth
\* at 0 on every branch and every register with the values it had before
C2_PerpRoundTrip ==
    (Pair("perp_init", "perp_init_inv") /\ ZeroOnActive(Prev.pre, Prev.tup.orth))
        => /\ err = "ok"
           /\ \A i \in 1..Len(branches) : branches[i].v[Idx(State, Prev.tup.orth)] = 0
           /\ ValueSet(branches) = ValueSet(Prev.pre.branches)


\* the primitives that write register state
Writers == {"init", "init_inv", "perp_init", "perp_init_inv", "had", "qft",
            "oper", "cnot", "phase"}

\* the primitives of the uniqueness and normalization invariants
Primitives == Writers \cup {"alloc", "alloc_inv", "measure", "postselect"}

\* the last call was one of `names`, executed at once, and it returned
Returned(names) ==
    hist # <<>> /\ Last.name \in names /\ Executed(Last) /\ err = "ok"

\* C3: control confinement: after a register-writing primitive executed
\* under a non-empty control stack returns, every frozen branch of the state
\* it started from is still present with the same values and amplitude
C3_ControlConfinement ==
    (Returned(Writers) /\ Last.pre.controls # <<>>)
        => Frozen(Last.pre) \subseteq BranchSet(branches)

\* C4: uniqueness: after a primitive returns from a state with pairwise
\* distinct branches, no two branches agree on every register value
C4_Uniqueness ==
    (Returned(Primitives) /\ Distinct(Last.pre.branches)) => Distinct(branches)

\* C5: normalization: after a primitive returns from a state that satisfies
\* the global invariants, the total squared amplitude is 1
C5_Normalization ==
    (Returned(Primitives) /\ Last.pre.controls = <<>> /\ Valid(Last.pre))
        => Normalized(branches)


Measurements == {"measure", "postselect", "measure_state"}

\* C7: a measurement operation invoked while a reversible scope is open
\* raises an error and leaves the state unchanged
C7_MeasureRejectedInScope ==
    (hist # <<>> /\ Last.name \in Measurements /\ scopes # <<>>)
        => (err # "ok" /\ branches = Last.pre.branches)

\* the registers the primitive call h writes
Writes(h) ==
    CASE h.name \in {"perp_init", "perp_init_inv"} /\ h.tup.val.cat # "expr" ->
             {h.tup.key, h.tup.orth}
      [] h.name = "perp_init" -> {h.tup.orth}
      [] h.name = "phase" -> {}
      [] OTHER -> {h.tup.key}

CtrlKeys(S) == UNION {ExprKeys(S.controls[i]) : i \in 1..Len(S.controls)}

\* C8: a register-writing primitive called on a register that an open
\* control references raises the structural error before it changes a branch
C8_AssertMutableBeforeWrite ==
    (hist # <<>> /\ Last.name \in Writers /\ Executed(Last)
       /\ Writes(Last) \cap CtrlKeys(Last.pre) # {})
        => (err = "SyntaxError" /\ branches = Last.pre.branches)


\* the names of the primitives without the _inv suffix
Bases == {"alloc", "init", "perp_init", "had", "qft", "oper", "phase", "cnot",
          "do_if", "do_while"}

\* foo to foo_inv and foo_inv to foo
InverseOf(op) ==
    IF op \in Bases THEN op \o "_inv" ELSE CHOOSE b \in Bases : b \o "_inv" = op

\* the calls an inversion block replays for the queue q, in order
Inverted(q) == [i \in 1..Len(q) |-> [q[Len(q) + 1 - i] EXCEPT !.op = InverseOf(@)]]

IsPrefix(s, t) == Len(s) <= Len(t) /\ \A i \in 1..Len(s) : s[i] = t[i]

\* the last call closed an outermost inversion block
InvClosed == hist # <<>> /\ Last.name = "inv_exit" /\ Len(Last.pre.queue_stack) = 1

\* C9: inversion scope: a primitive called in the body of an inv block is not
\* executed but appended to the block's queue, and closing the block calls
\* exactly inverse(pn), ..., inverse(p1) for the queued p1, ..., pn, in that
\* order, with the same arguments (up to the first call that raises)
C9_InvReplay ==
    /\ (hist # <<>> /\ Last.tup.op # "" /\ Last.pre.mode_stack # <<>>)
          => /\ err = "ok" /\ log = <<>>
             /\ branches = Last.pre.branches
             /\ controls = Last.pre.controls
             /\ key_dict = Last.pre.key_dict
             /\ queue_stack = [Last.pre.queue_stack EXCEPT
                                 ![Len(Last.pre.queue_stack)] = Append(@, Last.tup)]
    /\ InvClosed =>
          /\ err = "ok" => log = Inverted(Last.pre.queue_stack[1])
          /\ IsPrefix(log, Inverted(Last.pre.queue_stack[1]))

\* C9 witness: a block of two different calls has been closed and replayed
C9_Witness ==
    /\ InvClosed /\ err = "ok"
    /\ Len(Last.pre.queue_stack[1]) = 2
    /\ Last.pre.queue_stack[1][1].op # Last.pre.queue_stack[1][2].op
    /\ Len(log) = 2
    /\ branches # Last.pre.branches

\* the last call closed the loop `with q_while(n > 0, k): n -= 1` for the
\* keys n and k, k at 0 and n in a uniform superposition over distinct
\* non-negative integers
CountDown(n, k) ==
    /\ hist # <<>> /\ Last.name = "q_while_exit"
    /\ n # k /\ Last.tup.key = k /\ Last.tup.e = KeyGt(n, 0)
    /\ Last.tup.queue = <<TOper(n, Const(1), "sub", "add")>>
    /\ Len(Last.pre.queue_stack) = 1 /\ Last.pre.controls = <<>>
    /\ LET bs == Last.pre.branches
       IN /\ \A i \in 1..Len(bs) :
               /\ bs[i].v[Idx(Last.pre, k)] = 0
               /\ bs[i].v[Idx(Last.pre, n)] >= 0
               /\ bs[i].amp = bs[1].amp
          /\ Distinct(bs)

\* C10: quantum while result: after the loop every branch has n = 0 and k
\* equal to the value n had on it, with the amplitude it had
C10_WhileResult ==
    \A n, k \in AllKeys :
        CountDown(n, k) =>
            /\ err = "ok"
            /\ SameBranches(branches,
                  [i \in 1..Len(Last.pre.branches) |->
                      [Last.pre.branches[i] EXCEPT
                          !.v = [@ EXCEPT ![Idx(Last.pre, k)] =
                                              Last.pre.branches[i].v[Idx(Last.pre, n)],
                                          ![Idx(Last.pre, n)] = 0]]])
            /\ controls = <<>> /\ queue_stack = <<>>

\* C10 witness: the loop has run on n in the superposition of 1, 2 and 3
C10_Witness ==
    /\ CountDown(2, 1) /\ err = "ok"
    /\ {Last.pre.branches[i].v[Idx(Last.pre, 2)] : i \in 1..Len(Last.pre.branches)}
          = {1, 2, 3}
    /\ \A i \in 1..Len(branches) : Abs2(branches[i].amp) = <<1, 3>>
\* the last two calls ran a loop and then its inverse with the same queue,
\* condition and counter, the loop at top level on a state without error
WhileThenInverse ==
    /\ Len(hist) = 2
    /\ Prev.name = "q_while_exit" /\ Last.name = "do_while_inv"
    /\ Last.tup.queue = Prev.tup.queue /\ Last.tup.e = Prev.tup.e
    /\ Last.tup.key = Prev.tup.key
    /\ Len(Prev.pre.queue_stack) = 1 /\ Prev.pre.controls = <<>>
    /\ Last.pre.err = "ok"

\* C11: while reversibility: do_while and then do_while_inv with the same
\* body, condition and counter gives back the branches the loop started
\* from: the counter at 0 again and the registers at their initial values
C11_WhileReversible ==
    WhileThenInverse =>
        /\ err = "ok"
        /\ SameBranches(branches, Prev.pre.branches)
        /\ controls = <<>> /\ queue_stack = <<>>

\* C11 witness: a loop that ran three rounds on a superposition has been
\* undone
C11_Witness ==
    /\ WhileThenInverse /\ err = "ok"
    /\ Len(Prev.pre.branches) = 3
    /\ \E i \in 1..Len(Last.pre.branches) :
          Last.pre.branches[i].v[Idx(Last.pre, Last.tup.key)] = 3
    /\ branches # Last.pre.branches
\* the last call closed a garbage scope; its queue and its pile at that time
GarbageClosed == hist # <<>> /\ Last.name = "garbage_exit"
KeylessClosed == GarbageClosed /\ Last.tup.gkey = "keyless"
ClosedQueue == TopQueue(Last.pre)
ClosedPileId ==
    Last.pre.garbage_piles.keyless[Len(Last.pre.garbage_piles.keyless)]
ClosedPile == Last.pre.piles[ClosedPileId]

\* a queue is open outside the scope that was closed
ClosedNested == Len(Last.pre.queue_stack) > 1

\* what `t = reg(val)` and `t = reg(val); clean(t, val)` record
RegQueue(t, val) == <<TAlloc(t), TInit(t, val)>>
RegCleanQueue(t, val) == <<TAlloc(t), TInit(t, val), TInitInv(t, val), TAllocInv(t)>>

\* the body of the closed scope was `t = reg(val)` alone
RegOnly ==
    \E t \in AllKeys, val \in ScopeVals :
        ClosedPile = <<t>> /\ ClosedQueue = RegQueue(t, val)

\* the body of the closed scope was `t = reg(val); clean(t, val)`
RegThenClean ==
    \E t \in AllKeys, val \in ScopeVals :
        ClosedPile = <<t>> /\ ClosedQueue = RegCleanQueue(t, val)

\* C12: keyless garbage scope: the exit of every keyless scope, nested or
\* not, raises the structural error when a register made in it by reg was
\* not deallocated in it, and succeeds when each one was
C12_KeylessExit ==
    KeylessClosed =>
        /\ RegOnly => err = "SyntaxError"
        /\ RegThenClean => err = "ok"

\* C12 as the code has it: the exit of a keyless scope inside another
\* queueing scope only records do_garbage with the scope's queue and pile
\* and never raises; the exit of an outermost keyless scope raises the
\* structural error for a register left in its pile and succeeds with an
\* empty pile when each was cleaned; an outermost garbage scope that replays
\* the do_garbage of a nested keyless scope with a register left raises it
C12_KeylessExitDeferred ==
    /\ KeylessClosed /\ ClosedNested =>
          /\ err = "ok"
          /\ branches = Last.pre.branches /\ key_dict = Last.pre.key_dict
          /\ piles = Last.pre.piles /\ pile_stack = Last.pre.pile_stack
          /\ Len(queue_stack) = Len(Last.pre.queue_stack) - 1
          /\ queue_stack[Len(queue_stack)] =
                Append(Last.pre.queue_stack[Len(queue_stack)],
                       TDoGarbage(ClosedQueue, ClosedPileId, "keyless"))
    /\ KeylessClosed /\ ~ClosedNested =>
          /\ RegOnly => err = "SyntaxError"
          /\ RegThenClean => err = "ok" /\ piles[ClosedPileId] = <<>>
          /\ err = "ok" => piles[ClosedPileId] = <<>>
    /\ GarbageClosed /\ ~ClosedNested =>
          \A i \in 1..Len(ClosedQueue) :
              (/\ ClosedQueue[i].op = "do_garbage"
               /\ ClosedQueue[i].gkey = "keyless"
               /\ \E t \in AllKeys, val \in ScopeVals :
                     /\ ClosedQueue[i].queue = RegQueue(t, val)
                     /\ Last.pre.piles[ClosedQueue[i].pile] = <<t>>)
              => err = "SyntaxError"

\* C12 witness: a keyless scope with a register left in its pile was closed
\* inside another scope, without an error
C12_Witness == KeylessClosed /\ ClosedNested /\ RegOnly /\ err = "ok"
\* the branches of S on which the expressions have the values vs
BranchesWith(S, exprs, vs) ==
    SelectSeq(S.branches,
              LAMBDA b : \A i \in 1..Len(exprs) : Eval(S.key_dict, exprs[i], b) = vs[i])

\* bs is cs with every amplitude divided by the square root of p
DividedBy(bs, cs, p) ==
    /\ Len(bs) = Len(cs)
    /\ \A i \in 1..Len(bs) :
          /\ bs[i].v = cs[i].v
          /\ AmpMul(bs[i].amp, AmpSqrt(p[1], p[2])) = cs[i].amp

MeasureDone == hist # <<>> /\ Last.name = "measure" /\ err = "ok"

\* C13: measure collapses to one outcome: the value returned had non-zero
\* probability, and the branches left are exactly the branches that gave
\* that value, their registers unchanged and their amplitudes divided by
\* the square root of the outcome's probability
C13_MeasureCollapse ==
    MeasureDone =>
        LET kept == BranchesWith(Last.pre, Last.exprs, ret.val)
            p == TotalProb(kept)
        IN /\ ret.tag = "value" /\ Len(ret.val) = Len(Last.exprs)
           /\ p[1] > 0
           /\ DividedBy(branches, kept, p)

\* C13 witness: a measurement dropped a branch and rescaled the rest
C13_Witness ==
    /\ MeasureDone
    /\ Len(branches) < Len(Last.pre.branches)
    /\ TotalProb(BranchesWith(Last.pre, Last.exprs, ret.val)) = <<1, 2>>

PostselectCalled ==
    /\ hist # <<>> /\ Last.name = "postselect"
    /\ Last.pre.mode_stack = <<>>
    /\ HaveRegs(Last.pre, ExprKeys(Last.exprs[1]))

\* C14: postselect keeps exactly the branches on which the expression is
\* non-zero, rescaled to total probability 1, and returns the probability
\* those branches had; with no such branch it fails
C14_Postselect ==
    PostselectCalled =>
        LET kept == SelectSeq(Last.pre.branches,
                      LAMBDA b : Eval(Last.pre.key_dict, Last.exprs[1], b) # 0)
            p == TotalProb(kept)
        IN IF Len(kept) = 0 THEN err # "ok"
           ELSE /\ err = "ok"
                /\ DividedBy(branches, kept, p)
                /\ Normalized(branches)
                /\ ret = RetProb(p)

\* C14 witness: a postselection dropped a branch of probability 1/2
C14_Witness ==
    /\ PostselectCalled /\ err = "ok"
    /\ Len(branches) < Len(Last.pre.branches)
    /\ ret = RetProb(<<1, 2>>)
\* the last call was measure_state(key, val, postselect) on an allocated
\* key, with a val that does not read the key
MSCalled ==
    /\ hist # <<>> /\ Last.name = "measure_state"
    /\ Last.pre.mode_stack = <<>> /\ Mutable(Last.pre, Last.tup.key)
    /\ HaveRegs(Last.pre, {Last.tup.key} \cup ValKeys(Last.tup.val))
    /\ Last.tup.key \notin ValKeys(Last.tup.val)

MSKey == Idx(Last.pre, Last.tup.key)

\* the pre-state branches with key == val, and the others (Expression val)
MSYes ==
    SelectSeq(Last.pre.branches,
              LAMBDA b : b.v[MSKey] = Eval(Last.pre.key_dict, Last.tup.val.e, b))
MSNo ==
    SelectSeq(Last.pre.branches,
              LAMBDA b : b.v[MSKey] # Eval(Last.pre.key_dict, Last.tup.val.e, b))

\* the probability that the key projects onto the uniform superposition of
\* the list l: the squared norm of the projected state, i.e. the sum of
\* amp1 * conj(amp2) / N over the pairs of branches that hold values of l
\* in the key and agree on every other register
ListProjection(S, r, l) ==
    LET n == Len(S.branches)
        b1(h) == S.branches[((h - 1) \div n) + 1]
        b2(h) == S.branches[((h - 1) % n) + 1]
        term(h) ==
            IF /\ PosIn(l, b1(h).v[r]) # 0 /\ PosIn(l, b2(h).v[r]) # 0
               /\ EqualBut(b1(h), b2(h), r)
            THEN AmpMul(b1(h).amp, AmpConj(b2(h).amp))
            ELSE ZeroAmp
    IN RatDivInt(RealPart(AmpSum([h \in 1..(n * n) |-> term(h)], n)), Len(l))

\* C15: measure_state returns the probability that the key projects onto
\* the state val describes, whatever the postselect argument is
C15_ReturnsProbability ==
    MSCalled /\ err = "ok" =>
        /\ Last.tup.val.cat = "expr" => ret = RetProb(TotalProb(MSYes))
        /\ Last.tup.val.cat = "list" =>
              ret = RetProb(ListProjection(Last.pre, MSKey, Last.tup.val.l))

\* C16: measure_state projection for an Expression val: with postselect
\* True the branches left are the branches with key == val, rescaled to
\* total probability 1, and the probability they had is returned; with
\* postselect False the branches with key # val; the call fails when the
\* requested outcome has probability 0
C16_Projection ==
    MSCalled /\ Last.tup.val.cat = "expr" =>
        LET p == TotalProb(MSYes)
        IN /\ Last.tup.do = "True" =>
                 IF p[1] = 0 THEN err = "ValueError"
                 ELSE /\ err = "ok"
                      /\ DividedBy(branches, MSYes, p)
                      /\ Normalized(branches)
                      /\ ret = RetProb(p)
           /\ Last.tup.do = "False" =>
                 IF p[1] = p[2] THEN err = "ValueError"
                 ELSE /\ err = "ok"
                      /\ DividedBy(branches, MSNo, RatCompl(p))
                      /\ Normalized(branches)

\* C16 witness: a = reg([0,1]); measure_state(a, 0, postselect=True) gave
\* 0.5 and left a = 0 with probability 1
C16_Witness ==
    /\ MSCalled /\ err = "ok"
    /\ Last.tup.val = ValExpr(Const(0)) /\ Last.tup.do = "True"
    /\ Len(Last.pre.branches) = 2
    /\ ret = RetProb(<<1, 2>>)
    /\ Len(branches) = 1 /\ branches[1].v[MSKey] = 0 /\ branches[1].amp = OneAmp

\* the last call was init_inv(key, val) with an Expression val, executed at
\* once on an allocated key that no control reads
InitInvExprCalled ==
    /\ hist # <<>> /\ Last.name = "init_inv" /\ Executed(Last)
    /\ Last.tup.val.cat = "expr"
    /\ Mutable(Last.pre, Last.tup.key)
    /\ HaveRegs(Last.pre, {Last.tup.key} \cup ValKeys(Last.tup.val))

\* C17: init_inv with an Expression val fails if and only if some active
\* branch holds a value other than val in the key; what the key holds on
\* the frozen branches does not matter
C17_InitInvExprFailure ==
    InitInvExprCalled =>
        (err # "ok" <=>
            \E i \in 1..Len(Last.pre.branches) :
                LET b == Last.pre.branches[i]
                IN /\ Good(Last.pre, b)
                   /\ b.v[Idx(Last.pre, Last.tup.key)] #
                          Eval(Last.pre.key_dict, Last.tup.val.e, b))

\* the last call closed an outermost inversion block whose body was one
\* conditional block: with inv(): with q_if(e): <B>
IfInInvClosed ==
    /\ InvClosed
    /\ LET q == Last.pre.queue_stack[1]
       IN /\ Len(q) >= 3
          /\ q[1].op = "do_if" /\ q[Len(q)].op = "do_if_inv"
          /\ \A i \in 2..(Len(q) - 1) : q[i].op \notin {"do_if", "do_if_inv"}
          /\ HaveRegs(Last.pre, ExprKeys(q[1].e))

IfInInvCtrl == Last.pre.queue_stack[1][1].e

\* C18: conditional inside inversion: closing with inv(): with q_if(e): <B>
\* pushes e, calls the inverses of B in reverse order and pops e; the
\* branches on which e is zero are left as they were and the control stack
\* is the one the inversion block was entered with
C18_IfInsideInv ==
    (IfInInvClosed /\ err = "ok") =>
        /\ log = Inverted(Last.pre.queue_stack[1])
        /\ log[1].op = "do_if" /\ log[1].e = IfInInvCtrl
        /\ log[Len(log)].op = "do_if_inv"
        /\ controls = Last.pre.controls
        /\ key_dict = Last.pre.key_dict =>
              {b \in BranchSet(Last.pre.branches) :
                    Eval(Last.pre.key_dict, IfInInvCtrl, b) = 0}
                 \subseteq BranchSet(branches)

\* the calls that start with queue_action, and the measurement operations
QueueingNames ==
    {"alloc", "alloc_inv", "init", "init_inv", "perp_init", "perp_init_inv",
     "had", "qft", "oper", "phase", "cnot", "q_if", "q_if_exit"}
MeasurementNames == {"measure", "postselect"}

\* the last call was one of `names`, made while a queue was open
DeferredCall(names) ==
    hist # <<>> /\ Last.name \in names /\ Last.pre.queue_stack # <<>>

\* the last call returned and left exactly one more tuple in the top queue
OneTupleAppended ==
    LET n == Len(Last.pre.queue_stack)
    IN /\ err = "ok"
       /\ Len(queue_stack) = n
       /\ \A i \in 1..(n - 1) : queue_stack[i] = Last.pre.queue_stack[i]
       /\ Len(queue_stack[n]) = Len(Last.pre.queue_stack[n]) + 1
       /\ IsPrefix(Last.pre.queue_stack[n], queue_stack[n])

\* the last call left the branches, the control stack, the key registry and
\* reg_count as they were
StateUntouched ==
    /\ branches = Last.pre.branches
    /\ controls = Last.pre.controls
    /\ key_dict = Last.pre.key_dict
    /\ reg_count = Last.pre.reg_count

\* C19: deferral: while a queue is open a call to any primitive, measure and
\* postselect included, appends exactly one tuple to the top queue and
\* returns without changing branches, controls, key registry or reg_count
C19_Deferral ==
    DeferredCall(QueueingNames \cup MeasurementNames) =>
        (OneTupleAppended /\ StateUntouched)

\* C19 as the code has it: a call that starts with queue_action appends its
\* own tuple to the top queue and changes nothing else; measure and
\* postselect never append a tuple, and inside an inversion block they
\* raise and leave the branches alone
C19_DeferralQueued ==
    /\ DeferredCall(QueueingNames) =>
          /\ OneTupleAppended /\ StateUntouched
          /\ queue_stack[Len(queue_stack)][Len(queue_stack[Len(queue_stack)])] = Last.tup
          /\ log = <<>>
    /\ DeferredCall(MeasurementNames) =>
          /\ queue_stack = Last.pre.queue_stack
          /\ Last.pre.mode_stack # <<>> => (err = "SyntaxError" /\ StateUntouched)

\* C19 witness: had was called in the body of a q_while or garbage block
\* that had recorded one call already, and became the second tuple
C19_Witness ==
    /\ DeferredCall({"had"}) /\ err = "ok"
    /\ Last.pre.mode_stack = <<>>
    /\ Len(Last.pre.queue_stack) = 1 /\ Len(Last.pre.queue_stack[1]) = 1
    /\ Len(queue_stack[1]) = 2 /\ queue_stack[1][2].op = "had"
    /\ branches = Last.pre.branches

\* C20: scope balance: a program starts with the control stack, queue_stack,
\* mode_stack, garbage_stack and pile_stack empty, and whenever every block
\* it opened (inv, q_if, q_while, garbage, nested in any way) has been
\* closed without an error, the five stacks are empty again: each outermost
\* block is entered with them empty and leaves them as it found them
C20_ScopeBalance ==
    (scopes = <<>> /\ err = "ok") =>
        /\ controls = <<>>
        /\ queue_stack = <<>>
        /\ mode_stack = <<>>
        /\ garbage_stack = <<>>
        /\ pile_stack = <<>>

\* C20 witness: a garbage block with a non-empty body nested in an inversion
\* block has been closed and replayed, and the five stacks are empty
C20_Witness ==
    /\ Len(hist) = 2 /\ scopes = <<>> /\ err = "ok"
    /\ Prev.name = "garbage_exit" /\ Last.name = "inv_exit"
    /\ Last.pre.mode_stack # <<>> /\ Last.pre.queue_stack # <<>>
    /\ Len(log) > 1 /\ log[1].op = "do_garbage_inv"
    /\ controls = <<>> /\ queue_stack = <<>> /\ mode_stack = <<>>
    /\ garbage_stack = <<>> /\ pile_stack = <<>>

SetMax(s) == IF s = {} THEN 0 ELSE CHOOSE x \in s : \A y \in s : y <= x

\* the values the register of key holds on the branches bs of S
KeyVals(S, bs, key) == {bs[i].v[Idx(S, key)] : i \in 1..Len(bs)}

\* the last call closed a q_while block with a non-empty body at top level
\* and the loop came to its end
WhileRan ==
    /\ hist # <<>> /\ Last.name = "q_while_exit"
    /\ Len(Last.pre.queue_stack) = 1 /\ Last.pre.controls = <<>>
    /\ Last.tup.queue # <<>> /\ err = "ok"

\* C21: while termination: a loop whose body drives the condition to zero on
\* every branch (n -= 1 under n > 0, n >= 0 at the start) ends, after as
\* many rounds as the largest n, each round replaying the body once; a
\* branch whose condition has become zero is left alone by the later rounds
\* (its counter stays at the number of rounds it took part in and its n at
\* 0).  Any loop that ends has run as many rounds as the largest counter
\* and leaves the condition zero on every branch
C21_WhileTermination ==
    /\ \A n, k \in AllKeys :
          CountDown(n, k) =>
              /\ err = "ok"
              /\ Len(log) = SetMax(KeyVals(Last.pre, Last.pre.branches, n))
              /\ \A i \in 1..Len(log) : log[i] = TOper(n, Const(1), "sub", "add")
              /\ \A i \in 1..Len(Last.pre.branches) :
                    \E j \in 1..Len(branches) :
                       /\ branches[j].amp = Last.pre.branches[i].amp
                       /\ branches[j].v =
                             [Last.pre.branches[i].v EXCEPT
                                 ![Idx(Last.pre, k)] =
                                     Last.pre.branches[i].v[Idx(Last.pre, n)],
                                 ![Idx(Last.pre, n)] = 0]
    /\ WhileRan =>
          /\ Len(log) =
                SetMax(KeyVals(State, branches, Last.tup.key)) * Len(Last.tup.queue)
          /\ \A i \in 1..Len(branches) : Eval(key_dict, Last.tup.e, branches[i]) = 0

\* C21 witness: the loop n -= 1 has run three rounds on n in the
\* superposition of 0, 1 and 3: the branch of 0 took part in none and the
\* branch of 1 in the first round only
C21_Witness ==
    /\ CountDown(2, 1) /\ WhileRan
    /\ KeyVals(Last.pre, Last.pre.branches, 2) = {0, 1, 3}
    /\ Len(log) = 3
    /\ KeyVals(State, branches, 1) = {0, 1, 3}
    /\ KeyVals(State, branches, 2) = {0}

\* the register ids the key registry kd holds
RegIds(kd) == UNION {{kd[k][i] : i \in 1..Len(kd[k])} : k \in DOMAIN kd}

\* no register id is held twice, by one key or by two
HeldOnce(kd) ==
    \A k1, k2 \in DOMAIN kd : \A i \in 1..Len(kd[k1]) : \A j \in 1..Len(kd[k2]) :
        kd[k1][i] = kd[k2][j] => (k1 = k2 /\ i = j)

\* C22: register ids are never reused: reg_count never decreases, not even
\* in clear, every id the key registry holds lies below it and is held
\* once, and every id a step adds to the registry is one of the ids from
\* the old reg_count on, so it is greater than every id handed out before
C22_IdsNeverReused ==
    /\ [](HeldOnce(key_dict) /\ \A r \in RegIds(key_dict) : r < reg_count)
    /\ [][/\ reg_count' >= reg_count
          /\ \A r \in RegIds(key_dict') \ RegIds(key_dict) :
                reg_count <= r /\ r < reg_count']_vars

\* C22 witness: after two registers and a clear a new register has been
\* declared; it holds the id 2 and no other id is held
C22_Witness ==
    /\ Len(hist) = 2 /\ Prev.name = "clear" /\ Last.name = "reg" /\ err = "ok"
    /\ RegIds(Prev.pre.key_dict) = {0, 1}
    /\ Last.pre.key_dict = <<>> /\ Last.pre.reg_count = 2
    /\ RegIds(key_dict) = {2} /\ reg_count = 3
-----------------------------------------------------------------------------
(* Branch domains *)

\* the branches of bs without register r
Without(bs, r) ==
    [i \in 1..Len(bs) |-> [bs[i] EXCEPT !.v = [x \in (DOMAIN @) \ {r} |-> @[x]]]]

\* C23: every branch holds a value for exactly the register ids of the key
\* registry; an executed alloc adds the new id with value 0 to every branch,
\* active or frozen, and changes nothing else in the branches; an executed
\* alloc_inv removes the key's top id from every branch and changes nothing
\* else in them.
C23_BranchDomains ==
    /\ \A i \in 1..Len(branches) : DOMAIN branches[i].v = RegIds(key_dict)
    /\ (hist # <<>> /\ Last.name = "alloc" /\ err = "ok" /\ ~QueueOpen(Last.pre)) =>
          LET r == Last.pre.reg_count
          IN /\ RegIds(key_dict) = RegIds(Last.pre.key_dict) \cup {r}
             /\ r \notin RegIds(Last.pre.key_dict)
             /\ \A i \in 1..Len(branches) : branches[i].v[r] = 0
             /\ Without(branches, r) = Last.pre.branches
    /\ (hist # <<>> /\ Last.name = "alloc_inv" /\ err = "ok" /\ ~QueueOpen(Last.pre)) =>
          LET r == Idx(Last.pre, Last.tup.key)
          IN /\ RegIds(key_dict) = RegIds(Last.pre.key_dict) \ {r}
             /\ branches = Without(Last.pre.branches, r)

\* an alloc under a q_if with an active and a frozen branch
C23_Witness ==
    /\ Len(hist) = 2 /\ Prev.name = "q_if" /\ Last.name = "alloc" /\ err = "ok"
    /\ Len(controls) > 0
    /\ \E i, j \in 1..Len(branches) :
          /\ ~Good(Last.pre, Last.pre.branches[i])
          /\ Good(Last.pre, Last.pre.branches[j])
          /\ Last.pre.reg_count \notin DOMAIN Last.pre.branches[i].v
          /\ branches[i].v[Last.pre.reg_count] = 0
          /\ branches[j].v[Last.pre.reg_count] = 0

-----------------------------------------------------------------------------
(* A val that reads the register of the call *)

ValOps == {"init", "init_inv", "perp_init", "perp_init_inv", "measure_state"}

\* the registers the executed call works on
TargetsOf(c) ==
    IF c.name \in {"perp_init", "perp_init_inv"} THEN {c.tup.key, c.tup.orth}
    ELSE {c.tup.key}

SelfReferring(c) ==
    /\ c.name \in ValOps
    /\ ~QueueOpen(c.pre)
    /\ TargetsOf(c) \cap ValKeys(c.tup.val) # {}

\* C24: a val-taking primitive executed with a val that reads its own
\* target register fails with SyntaxError and leaves the branches as
\* they were.
C24_SelfReferenceRejected ==
    (hist # <<>> /\ SelfReferring(Last)) =>
        (err = "SyntaxError" /\ branches = Last.pre.branches)

-----------------------------------------------------------------------------
(* cnot *)

\* the last call is a cnot that reached its loop over the branches
CnotRan ==
    /\ hist # <<>> /\ Last.name = "cnot"
    /\ ~QueueOpen(Last.pre) /\ Mutable(Last.pre, Last.tup.key)
    /\ Last.tup.key \notin ExprKeys(Last.tup.e) \cup ExprKeys(Last.tup.e2)
    /\ HaveRegs(Last.pre, {Last.tup.key} \cup ExprKeys(Last.tup.e) \cup ExprKeys(Last.tup.e2))

\* the active branches of the pre-state on which the two indices are equal
CnotSame ==
    {i \in 1..Len(Last.pre.branches) :
        /\ Good(Last.pre, Last.pre.branches[i])
        /\ Eval(Last.pre.key_dict, Last.tup.e, Last.pre.branches[i])
             = Eval(Last.pre.key_dict, Last.tup.e2, Last.pre.branches[i])}

\* what cnot is to make of the branch b of the pre-state
CnotOf(b) ==
    LET r == Idx(Last.pre, Last.tup.key)
        i == Eval(Last.pre.key_dict, Last.tup.e, b)
        j == Eval(Last.pre.key_dict, Last.tup.e2, b)
    IN IF Good(Last.pre, b) /\ GetBit(b.v[r], i) = 1
       THEN [b EXCEPT !.v[r] = SetBit(@, j, 1 - GetBit(@, j))]
       ELSE b

\* C25: a cnot whose indices differ on every active branch succeeds and
\* flips bit j of key on exactly the active branches whose bit i is 1,
\* leaving every other bit, register, amplitude and branch as it was; the
\* same cnot executed twice in a row restores the branches; a cnot whose
\* indices are equal on an active branch fails.
C25_Cnot ==
    /\ (CnotRan /\ CnotSame = {}) =>
          /\ err = "ok"
          /\ branches = [i \in 1..Len(Last.pre.branches) |-> CnotOf(Last.pre.branches[i])]
    /\ (CnotRan /\ CnotSame = {} /\ Len(hist) = 2 /\ Prev.name = "cnot"
           /\ Prev.tup = Last.tup /\ ~QueueOpen(Prev.pre)) =>
          branches = Prev.pre.branches
    /\ (CnotRan /\ CnotSame # {}) => err # "ok"

-----------------------------------------------------------------------------
(* An inversion block directly inside an inversion block *)

\* the last two calls closed an inner inversion block and then the outer
\* one, the outer body holding nothing but the inner block
DoubleInv ==
    /\ Len(hist) = 2 /\ Prev.name = "inv_exit" /\ Last.name = "inv_exit"
    /\ Len(Prev.pre.queue_stack) = 2 /\ Prev.pre.queue_stack[1] = <<>>
    /\ Prev.pre.mode_stack = <<"inv", "inv">>

\* the calls p1, ..., pn of the inner body
InnerBody == Prev.pre.queue_stack[2]

\* the forward primitive a call ends in: had_inv, cnot_inv, qft_inv,
\* oper_inv and phase_inv call the forward op, with changed arguments
ForwardForm(tup) ==
    CASE tup.op = "had_inv" -> [tup EXCEPT !.op = "had"]
      [] tup.op = "cnot_inv" -> [tup EXCEPT !.op = "cnot"]
      [] tup.op = "qft_inv" -> [tup EXCEPT !.op = "qft", !.i = 1 - @]
      [] tup.op = "oper_inv" -> [tup EXCEPT !.op = "oper", !.do = tup.undo, !.undo = tup.do]
      [] tup.op = "phase_inv" -> [tup EXCEPT !.op = "phase", !.i = 0 - @]
      [] OTHER -> tup

ForwardForms(q) == [i \in 1..Len(q) |-> ForwardForm(q[i])]

\* p1, ..., pn called in that order at top level from the state the outer
\* block was closed in
RunForward ==
    Replay([Last.pre EXCEPT !.branches = Joined(Last.pre.branches, Last.cells),
                            !.queue_stack = <<>>, !.mode_stack = <<>>],
           InnerBody, 1, FALSE)

\* C26: closing the outer of two directly nested inversion blocks executes
\* the calls p1, ..., pn of the inner body in their original order and with
\* their forward meaning: the simulator ends in the state that calling
\* p1, ..., pn at top level gives (up to the first call that raises).
C26_DoubleInversion ==
    DoubleInv =>
        /\ ForwardForms(log) = ForwardForms(RunForward.log)
        /\ err = "ok" => ForwardForms(log) = ForwardForms(InnerBody)
        /\ err = RunForward.err
        /\ branches = Plain(RunForward.branches)
        /\ cells = Cells(RunForward.branches)
        /\ key_dict = RunForward.key_dict /\ reg_count = RunForward.reg_count
        /\ controls = RunForward.controls
        /\ queue_stack = <<>> /\ mode_stack = <<>>

\* two different calls, neither its own inverse, have gone through both blocks
C26_Witness ==
    /\ DoubleInv /\ err = "ok"
    /\ Len(InnerBody) = 2 /\ InnerBody[1].op # InnerBody[2].op
    /\ {InnerBody[1].op, InnerBody[2].op} \cap {"had", "cnot"} = {}
    /\ Len(log) = 2
    /\ branches # Last.pre.branches

\* the last call closed a keyless garbage block at top level, so do_garbage
\* ran at once
KeylessExit ==
    /\ hist # <<>> /\ Last.name = "garbage_exit" /\ Last.tup.gkey = "keyless"
    /\ Len(Last.pre.queue_stack) = 1

\* the state do_garbage reached after replaying the queue of that block,
\* before it looked at the pile
GarbageRan ==
    LET S == [Last.pre EXCEPT !.branches = Joined(Last.pre.branches, Last.cells)]
        kl == S.garbage_piles.keyless
        S3 == [PopQueue(S) EXCEPT !.garbage_piles.keyless = SubSeq(@, 1, Len(@) - 1),
                                  !.garbage_stack = SubSeq(@, 1, Len(@) - 1)]
    IN Replay([S3 EXCEPT !.pile_stack = Append(@, kl[Len(kl)])], TopQueue(S), 1, FALSE)

\* do_garbage raised "Keyless garbage pile terminated non-empty"
KeylessRaised ==
    KeylessExit /\ GarbageRan.err = "ok" /\ err = "SyntaxError"

\* C27: when do_garbage raises the "Keyless garbage pile terminated
\* non-empty" error, the pile it pushed has been removed from pile_stack:
\* pile_stack is what it was before the block was closed, and is empty.
C27_PileStackRestored ==
    KeylessRaised => (pile_stack = Last.pre.pile_stack /\ pile_stack = <<>>)

====
